---- MODULE Spec2Model ----
(***************************************************************************)
(* Media service: the ingestion-and-consistency pipeline.                  *)
(*                                                                         *)
(* The model follows MediaController (upload, get, replace, delete), the   *)
(* FileValidator, the S3Service adapter with its error mapping, the        *)
(* SQLite-backed MetadataStore and the Router's error rendering.  Request  *)
(* handlers are async functions: each runs synchronously up to its next    *)
(* await and other handlers interleave at the awaits.  An object-store     *)
(* call is two steps: the backend performs (or fails) the call, and later  *)
(* the awaiting handler resumes with the outcome.                          *)
(*                                                                         *)
(* Strings on which the code works character by character (filenames,     *)
(* media types) are sequences of one-character strings.  A uuid and the    *)
(* literal prefix "uploads/" are single tokens of such a sequence.         *)
(***************************************************************************)
EXTENDS Integers, Sequences, FiniteSets, TLC

\* ------------------------------------------------------------------ bounds

\* Number of HTTP requests in one behaviour.
NumReq == 2

\* config.maxFileSizeBytes, scaled down (the default is 10 MB).
MaxFileSizeBytes == 6

\* Number of calls made on the metadata store in one session of direct calls.
MaxStoreOps == 6

\* ---------------------------------------------------------------- strings

UpperAlpha ==
    <<"A","B","C","D","E","F","G","H","I","J","K","L","M",
      "N","O","P","Q","R","S","T","U","V","W","X","Y","Z">>

LowerAlpha ==
    <<"a","b","c","d","e","f","g","h","i","j","k","l","m",
      "n","o","p","q","r","s","t","u","v","w","x","y","z">>

LowerOf == [c \in {UpperAlpha[i] : i \in 1..26} |->
               LowerAlpha[CHOOSE i \in 1..26 : UpperAlpha[i] = c]]

LowerChar(c) == IF c \in DOMAIN LowerOf THEN LowerOf[c] ELSE c

\* String.prototype.toLowerCase
ToLowerCase(s) == [i \in 1..Len(s) |-> LowerChar(s[i])]

\* String.prototype.lastIndexOf, 0-based, -1 when absent
LastIndexOf(s, c) ==
    IF \E i \in 1..Len(s) : s[i] = c
    THEN (CHOOSE i \in 1..Len(s) :
             s[i] = c /\ \A j \in (i+1)..Len(s) : s[j] # c) - 1
    ELSE -1

\* String.prototype.substring(start): start is clamped to 0..length
Substring(s, start) ==
    LET b == IF start < 0 THEN 0 ELSE IF start > Len(s) THEN Len(s) ELSE start
    IN  SubSeq(s, b + 1, Len(s))

\* ------------------------------------------------------------ media types

ImageJpeg == <<"i","m","a","g","e","/","j","p","e","g">>
ImagePng == <<"i","m","a","g","e","/","p","n","g">>
ImageGif == <<"i","m","a","g","e","/","g","i","f">>
ApplicationPdf == <<"a","p","p","l","i","c","a","t","i","o","n","/","p","d","f">>
OctetStream ==
    <<"a","p","p","l","i","c","a","t","i","o","n","/",
      "o","c","t","e","t","-","s","t","r","e","a","m">>
TextPlain == <<"t","e","x","t","/","p","l","a","i","n">>
ImageJpegUpper == <<"I","M","A","G","E","/","J","P","E","G">>

ALLOWED_MIME_TYPES == {ImageJpeg, ImagePng, ImageGif, ApplicationPdf}

\* Array.from(ALLOWED_MIME_TYPES): insertion order
getAllowedTypes == <<ImageJpeg, ImagePng, ImageGif, ApplicationPdf>>

EXTENSION_TO_MIME(ext) ==
    CASE ext = <<".","j","p","g">> -> <<ImageJpeg>>
      [] ext = <<".","j","p","e","g">> -> <<ImageJpeg>>
      [] ext = <<".","p","n","g">> -> <<ImagePng>>
      [] ext = <<".","g","i","f">> -> <<ImageGif>>
      [] ext = <<".","p","d","f">> -> <<ApplicationPdf>>
      [] OTHER -> <<>>

MAGIC_BYTES(m) ==
    CASE m = ImageJpeg -> {<<255, 216, 255>>}
      [] m = ImagePng -> {<<137, 80, 78, 71>>}
      [] m = ImageGif -> {<<71, 73, 70, 56, 55, 97>>, <<71, 73, 70, 56, 57, 97>>}
      [] m = ApplicationPdf -> {<<37, 80, 68, 70>>}
      [] OTHER -> {}

\* ----------------------------------------------------------------- errors

NoError == [name |-> "none", statusCode |-> 0, allowedTypes |-> <<>>]

BadRequestError == [name |-> "BadRequestError", statusCode |-> 400, allowedTypes |-> <<>>]

NotFoundError == [name |-> "NotFoundError", statusCode |-> 404, allowedTypes |-> <<>>]

PayloadTooLargeError ==
    [name |-> "PayloadTooLargeError", statusCode |-> 413, allowedTypes |-> <<>>]

UnsupportedMediaTypeError(allowed) ==
    [name |-> "UnsupportedMediaTypeError", statusCode |-> 415, allowedTypes |-> allowed]

InternalError == [name |-> "InternalError", statusCode |-> 500, allowedTypes |-> <<>>]

\* An error that is no AppError (a TypeError, a SqliteError).
PlainError == [name |-> "Error", statusCode |-> 0, allowedTypes |-> <<>>]

AppErrorNames ==
    {"BadRequestError", "NotFoundError", "PayloadTooLargeError",
     "UnsupportedMediaTypeError", "InternalError"}

\* Router.handleRouteError: the status written for a failed handler
handleRouteError(err) ==
    IF err.name \in AppErrorNames THEN err.statusCode ELSE 500

\* -------------------------------------------------------------- validator

\* matchesMagicBytes with data shorter than a signature taken as a match.
matchesMagicBytes_ShortPasses(data, mimeType) ==
    LET signatures == MAGIC_BYTES(ToLowerCase(mimeType))
    IN  IF signatures = {} THEN TRUE
        ELSE \E sig \in signatures :
                \/ Len(data) < Len(sig)
                \/ SubSeq(data, 1, Len(sig)) = sig

\* FileValidator.matchesMagicBytes
matchesMagicBytes(data, mimeType) ==
    LET signatures == MAGIC_BYTES(ToLowerCase(mimeType))
    IN  IF signatures = {} THEN TRUE
        ELSE \E sig \in signatures :
                /\ Len(data) >= Len(sig)
                /\ SubSeq(data, 1, Len(sig)) = sig

\* validateWith with the allow-list looked at before the size.
validateWith_TypeBeforeSize(maxFileSizeBytes, fileData, mimeType, filename) ==
    IF Len(fileData) = 0 THEN BadRequestError
    ELSE IF ToLowerCase(mimeType) \notin ALLOWED_MIME_TYPES
         THEN UnsupportedMediaTypeError(getAllowedTypes)
    ELSE IF Len(fileData) > maxFileSizeBytes THEN PayloadTooLargeError
    ELSE IF ~matchesMagicBytes(fileData, mimeType)
         THEN UnsupportedMediaTypeError(<<>>)
    ELSE NoError

\* validateWith with a file of exactly the limit rejected (>= for >).
validateWith_AtLimitRejects(maxFileSizeBytes, fileData, mimeType, filename) ==
    IF Len(fileData) = 0 THEN BadRequestError
    ELSE IF Len(fileData) >= maxFileSizeBytes THEN PayloadTooLargeError
    ELSE IF ToLowerCase(mimeType) \notin ALLOWED_MIME_TYPES
         THEN UnsupportedMediaTypeError(getAllowedTypes)
    ELSE IF ~matchesMagicBytes(fileData, mimeType)
         THEN UnsupportedMediaTypeError(<<>>)
    ELSE NoError

\* FileValidator.validate of a validator constructed with
\* config.maxFileSizeBytes = maxFileSizeBytes: NoError when the file is accepted
validateWith(maxFileSizeBytes, fileData, mimeType, filename) ==
    IF Len(fileData) = 0 THEN BadRequestError
    ELSE IF Len(fileData) > maxFileSizeBytes THEN PayloadTooLargeError
    ELSE IF ToLowerCase(mimeType) \notin ALLOWED_MIME_TYPES
         THEN UnsupportedMediaTypeError(getAllowedTypes)
    ELSE IF ~matchesMagicBytes(fileData, mimeType)
         THEN UnsupportedMediaTypeError(<<>>)
    ELSE NoError

\* validate that looks at the size only.
validate_SizeOnly(fileData, mimeType, filename) ==
    IF Len(fileData) = 0 THEN BadRequestError
    ELSE IF Len(fileData) > MaxFileSizeBytes THEN PayloadTooLargeError
    ELSE NoError

\* FileValidator.validate of the service's validator
validate(fileData, mimeType, filename) ==
    validateWith(MaxFileSizeBytes, fileData, mimeType, filename)

\* getMimeTypeFromExtension without the toLowerCase.
getMimeTypeFromExtension_CaseSensitive(filename) ==
    LET dotIndex == LastIndexOf(filename, ".")
    IN  IF dotIndex = -1 THEN <<>>
        ELSE EXTENSION_TO_MIME(Substring(filename, dotIndex))

\* FileValidator.getMimeTypeFromExtension: <<>> is null
getMimeTypeFromExtension(filename) ==
    LET dotIndex == LastIndexOf(filename, ".")
    IN  IF dotIndex = -1 THEN <<>>
        ELSE EXTENSION_TO_MIME(ToLowerCase(Substring(filename, dotIndex)))

\* ------------------------------------------------------------------ input

\* The uuids this behaviour can meet; uuidv4 hands them out in order.
UuidPool == <<"u1", "u2", "u3", "u4", "u5", "u6">>

Uuids == {UuidPool[i] : i \in 1..(NumReq + 1)}

\* A well-formed uuid that uuidv4 never returns here, and a malformed id.
UnknownUuid == UuidPool[NumReq + 1]
MalformedId == "not-a-uuid"

\* uuid.validate
uuidValidate(value) == value \in Uuids

ParsedFile(filename, mimeType, data) ==
    [filename |-> filename, mimeType |-> mimeType, data |-> data]

\* a.jpg: 5 bytes with the JPEG signature, declared image/jpeg
FileA == ParsedFile(<<"a",".","j","p","g">>, ImageJpeg, <<255, 216, 255, 0, 1>>)
\* b.JPG: 3 bytes with the JPEG signature, declared IMAGE/JPEG
FileB == ParsedFile(<<"b",".","J","P","G">>, ImageJpegUpper, <<255, 216, 255>>)
\* c.jpg: 4 bytes with the JPEG signature (same extension as a.jpg)
FileC == ParsedFile(<<"c",".","j","p","g">>, ImageJpeg, <<255, 216, 255, 7>>)
\* doc.pdf: %PDF, declared application/octet-stream
FileDoc == ParsedFile(<<"d","o","c",".","p","d","f">>, OctetStream, <<37, 80, 68, 70>>)
\* png: a PNG whose filename has no '.'
FileNoExt == ParsedFile(<<"p","n","g">>, ImagePng, <<137, 80, 78, 71, 13>>)
\* e.png: an empty file
FileEmpty == ParsedFile(<<"e",".","p","n","g">>, ImagePng, <<>>)
\* big.gif: the GIF89a signature padded to one byte more than the limit
FileBig ==
    ParsedFile(<<"b","i","g",".","g","i","f">>, ImageGif,
               <<71, 73, 70, 56, 57, 97>> \o [i \in 1..(MaxFileSizeBytes - 5) |-> 0])
\* t.txt: text/plain
FileTxt == ParsedFile(<<"t",".","t","x","t">>, TextPlain, <<104, 105>>)
\* m.jpg: declared image/png, JPEG bytes under a .jpg name
FileMismatch == ParsedFile(<<"m",".","j","p","g">>, ImagePng, <<255, 216, 255, 0>>)

ValidFiles == {FileA, FileC, FileDoc}

InvalidFiles == {FileEmpty, FileBig, FileTxt, FileMismatch}

\* The multipart bodies a request may carry: its file parts, in order.
Bodies ==
    {<<>>} \cup {<<f>> : f \in ValidFiles \cup InvalidFiles} \cup {<<FileA, FileC>>}

\* -------------------------------------------------------- multipart decoder

\* MediaController.multipartLimits.maxFiles
maxFiles == 1

\* parseMultipartBody with no limits.files given to busboy: every part is a
\* file.
parseMultipartBody_NoFilesLimit(parts) ==
    IF \E i \in 1..Len(parts) : Len(parts[i].data) > MaxFileSizeBytes
    THEN {[err |-> PayloadTooLargeError, files |-> <<>>]}
    ELSE {[err |-> NoError, files |-> parts]}

\* parseMultipartBody: the outcomes of the promise for a well-framed body.  A
\* part longer than limits.maxFileSize is truncated by busboy and rejects at
\* its end; a part beyond limits.maxFiles raises filesLimit, which rejects;
\* of the two the one whose event comes first settles the promise.
parseMultipartBody(parts) ==
    LET oversized == \E i \in 1..Len(parts) :
                        /\ i <= maxFiles
                        /\ Len(parts[i].data) > MaxFileSizeBytes
        tooMany == Len(parts) > maxFiles
    IN  {[err |-> PayloadTooLargeError, files |-> <<>>] :
            x \in IF oversized THEN {1} ELSE {}}
          \cup {[err |-> BadRequestError, files |-> <<>>] :
                   x \in IF tooMany THEN {1} ELSE {}}
          \cup {[err |-> NoError, files |-> parts] :
                   x \in IF oversized \/ tooMany THEN {} ELSE {1}}

\* ------------------------------------------------------------ object store

\* AppConfig.s3Bucket
Bucket == "media-uploads"

\* Error names of the backend that the model's object store can answer with.
PutFaults == {"AccessDenied"}
GetFaults == {"RequestTimeout"}

\* The failure of the response body of a GetObject that client.send resolved:
\* the stream errors while download reads it.
StreamFaults == {"ECONNRESET"}
RemoveFaults == {"AccessDenied"}

\* mapS3Error that answers a denied request with a client error.
mapS3Error_DeniedIsClientError(code) ==
    CASE code \in {"NoSuchKey", "NotFound"} -> NotFoundError
      [] code \in {"AccessDenied", "Forbidden"} -> BadRequestError
      [] OTHER -> InternalError

\* S3Service.mapS3Error
mapS3Error(code) ==
    CASE code \in {"NoSuchKey", "NotFound"} -> NotFoundError
      [] code = "NoSuchBucket" -> InternalError
      [] code \in {"AccessDenied", "Forbidden"} -> InternalError
      [] code \in {"InvalidAccessKeyId", "SignatureDoesNotMatch"} -> InternalError
      [] code \in {"RequestTimeout", "TimeoutError"} -> InternalError
      [] OTHER -> InternalError

\* S3Service.mapS3Error: the message of the error it returns, as the pieces the
\* template strings join.  code is awsError.name || "" and the last piece of
\* the default case is awsError.message || code.
mapS3ErrorMessage(code, message, operation, key) ==
    CASE code \in {"NoSuchKey", "NotFound"} ->
            <<"Object ">> \o key \o <<" not found in S3">>
      [] code = "NoSuchBucket" ->
            <<"S3 bucket ", Bucket, " does not exist", " - check configuration">>
      [] code \in {"AccessDenied", "Forbidden"} ->
            <<"Access denied to S3", " - check AWS credentials and bucket policy">>
      [] code \in {"InvalidAccessKeyId", "SignatureDoesNotMatch"} ->
            <<"Invalid AWS credentials",
              " - check AWS_ACCESS_KEY_ID / AWS_SECRET_ACCESS_KEY">>
      [] code \in {"RequestTimeout", "TimeoutError"} ->
            <<"S3 ", operation, " timed out for key ">> \o key \o <<" - try again">>
      [] OTHER ->
            <<"S3 ", operation, " failed: ", IF message # "" THEN message ELSE code>>

S3Object(data, contentType) == [data |-> data, contentType |-> contentType]

\* The store after PutObject / DeleteObject
PutObject(store, key, obj) ==
    [k \in DOMAIN store \cup {key} |-> IF k = key THEN obj ELSE store[k]]

DeleteObject(store, key) == [k \in DOMAIN store \ {key} |-> store[k]]

\* `uploads/${fileId}${ext}` with ext = filename.substring(filename.lastIndexOf("."))
S3Key(fileId, filename) ==
    <<"uploads/", fileId>> \o Substring(filename, LastIndexOf(filename, "."))

\* ----------------------------------------------------------- metadata store

FileMetadata(id, originalName, mimeType, size, s3Key, s3Bucket, uploadedAt) ==
    [id |-> id, originalName |-> originalName, mimeType |-> mimeType, size |-> size,
     s3Key |-> s3Key, s3Bucket |-> s3Bucket, uploadedAt |-> uploadedAt]

\* The row of table file_metadata that save and update bind to the statement:
\* one column per named parameter.
toRow(m) ==
    [id |-> m.id, original_name |-> m.originalName, mime_type |-> m.mimeType,
     size |-> m.size, s3_key |-> m.s3Key, s3_bucket |-> m.s3Bucket,
     uploaded_at |-> m.uploadedAt]

\* toMetadata with original_name and s3_key read into each other's field.
toMetadata_SwapsNameAndKey(row) ==
    [id |-> row.id, originalName |-> row.s3_key, mimeType |-> row.mime_type,
     size |-> row.size, s3Key |-> row.original_name, s3Bucket |-> row.s3_bucket,
     uploadedAt |-> row.uploaded_at]

\* MetadataStore.toMetadata: a row read back as a record
toMetadata(row) ==
    [id |-> row.id, originalName |-> row.original_name, mimeType |-> row.mime_type,
     size |-> row.size, s3Key |-> row.s3_key, s3Bucket |-> row.s3_bucket,
     uploadedAt |-> row.uploaded_at]

\* saveThrows of a table without a primary key: no insert ever fails.
saveThrows_Never(db, metadata) == FALSE

\* MetadataStore.save: the INSERT fails on a duplicate primary key
saveThrows(db, metadata) == metadata.id \in DOMAIN db

\* save written as INSERT OR REPLACE: a duplicate id overwrites the row.
save_Upsert(db, metadata) ==
    [i \in DOMAIN db \cup {metadata.id} |->
        IF i = metadata.id THEN toRow(metadata) ELSE db[i]]

save(db, metadata) ==
    IF saveThrows(db, metadata) THEN db
    ELSE [i \in DOMAIN db \cup {metadata.id} |->
             IF i = metadata.id THEN toRow(metadata) ELSE db[i]]

\* What makes the INSERT throw besides a duplicate key: SQLite refusing the
\* write.
InsertFaults == {"SQLITE_FULL"}

\* MetadataStore.findById: <<>> is undefined
findById(db, id) == IF id \in DOMAIN db THEN <<toMetadata(db[id])>> ELSE <<>>

\* delete without its WHERE clause: a known id empties the table.
delete_EveryRow(db, id) ==
    IF id \in DOMAIN db THEN [i \in {} |-> db[i]] ELSE db

\* MetadataStore.delete: the table afterwards
delete(db, id) == [i \in DOMAIN db \ {id} |-> db[i]]

\* MetadataStore.delete: the value returned, result.changes > 0
deleteResult(db, id) == id \in DOMAIN db

\* { ...existing, ...metadata }
Merge(existing, fields) ==
    [f \in DOMAIN existing \cup DOMAIN fields |->
        IF f \in DOMAIN fields THEN fields[f] ELSE existing[f]]

\* MetadataStore.update: the value returned, <<>> is undefined
updateResult(db, id, fields) ==
    IF findById(db, id) = <<>> THEN <<>>
    ELSE <<Merge(findById(db, id)[1], fields)>>

\* update that returns the merged record and never runs the statement.
update_NotPersisted(db, id, fields) == db

\* MetadataStore.update: the table afterwards.  The statement is run with the
\* merged record, so its WHERE id = @id names the merged record's id and its
\* SET list the six other columns.
update(db, id, fields) ==
    IF findById(db, id) = <<>> THEN db
    ELSE LET updated == Merge(findById(db, id)[1], fields)
         IN  [i \in DOMAIN db |->
                 IF i = updated.id
                 THEN [c \in DOMAIN db[i] |->
                          IF c = "id" THEN db[i].id ELSE toRow(updated)[c]]
                 ELSE db[i]]

\* MetadataStore.findAll: SELECT * ... ORDER BY uploaded_at DESC.  The statement
\* names no second sort key: rows of equal uploaded_at come out in the order
\* the sorter leaves them, which follows the scan of the table in rowid order
\* (rowids lists the ids of the table in that order) either kept or reversed.
findAll(db, rowids, ties) ==
    LET n == Cardinality(DOMAIN db)
        At(i) == CHOOSE k \in 1..Len(rowids) : rowids[k] = i
        First(i, j) ==
            \/ db[i].uploaded_at > db[j].uploaded_at
            \/ /\ db[i].uploaded_at = db[j].uploaded_at
               /\ IF ties = "scan" THEN At(i) < At(j) ELSE At(i) > At(j)
        ids == CHOOSE l \in [1..n -> DOMAIN db] :
                   \A a, b \in 1..n : a < b => First(l[a], l[b])
    IN  [k \in 1..n |-> toMetadata(db[ids[k]])]

\* MediaController.toResponse
toResponse(m) ==
    [id |-> m.id, originalName |-> m.originalName, mimeType |-> m.mimeType,
     size |-> m.size, uploadedAt |-> m.uploadedAt]

\* resolveMimeType with the extension's type taken whatever the declared type.
resolveMimeType_AlwaysExtension(file) ==
    IF getMimeTypeFromExtension(file.filename) # <<>>
    THEN getMimeTypeFromExtension(file.filename)[1]
    ELSE file.mimeType

\* The type the controller validates and stores: the extension's type replaces
\* a declared application/octet-stream.
resolveMimeType(file) ==
    IF file.mimeType = OctetStream /\ getMimeTypeFromExtension(file.filename) # <<>>
    THEN getMimeTypeFromExtension(file.filename)[1]
    ELSE file.mimeType

\* ------------------------------------------------------------------ state

VARIABLES
    meta,      \* the file_metadata table: id -> row
    s3,        \* the bucket: key -> object
    req,       \* the requests: their handler's position, locals and response
    issued,    \* how many uuids uuidv4 has returned
    now,       \* the clock read by new Date()
    call       \* a direct call of a validator or store method, its inputs and outcome

vars == <<meta, s3, req, issued, now, call>>

Requests == 1..NumReq

NoFile == ParsedFile(<<>>, <<>>, <<>>)

NoResponse == [file |-> <<>>, data |-> <<>>, contentType |-> <<>>, id |-> ""]

\* A request that has not arrived yet.
IdleRequest ==
    [op |-> "none", pc |-> "idle", id |-> "", parts |-> <<>>, existing |-> <<>>,
     file |-> NoFile, mimeType |-> <<>>, key |-> <<>>, s3res |-> "none",
     got |-> <<>>, err |-> NoError, status |-> 0, resp |-> NoResponse,
     calls |-> <<>>, ended |-> FALSE, written |-> <<>>]

\* The table is a SQLite file and the bucket outlives the process: at start
\* both are empty, or hold what an earlier upload of a.jpg left (row u1 and
\* its object).
StartsWith(files) ==
    /\ meta = [i \in {UuidPool[k] : k \in 1..Len(files)} |->
                 LET k == CHOOSE k \in 1..Len(files) : UuidPool[k] = i
                 IN  toRow(FileMetadata(i, files[k].filename, resolveMimeType(files[k]),
                                        Len(files[k].data), S3Key(i, files[k].filename),
                                        Bucket, 0))]
    /\ s3 = [key \in {S3Key(UuidPool[k], files[k].filename) : k \in 1..Len(files)} |->
                 LET k == CHOOSE k \in 1..Len(files) :
                              S3Key(UuidPool[k], files[k].filename) = key
                 IN  S3Object(files[k].data, resolveMimeType(files[k]))]
    /\ issued = Len(files)

\* No method is called directly: the service handles requests.
NoCall ==
    [fn |-> "none", pc |-> "none", limit |-> 0, fileData |-> <<>>, mimeType |-> <<>>,
     filename |-> <<>>, rows |-> <<>>, result |-> NoError, detected |-> <<>>,
     outcomes |-> <<>>]

Init ==
    /\ StartsWith(<<>>) \/ StartsWith(<<FileA>>)
    /\ req = [r \in Requests |-> IdleRequest]
    /\ now = 0
    /\ call = NoCall

\* A request arrives only after the ones numbered before it.
Arrives(r) ==
    /\ req[r].pc = "idle"
    /\ r > 1 => req[r - 1].pc # "idle"

\* The ids a client can name: one it was given, an unknown one, a malformed one.
RequestIds == {UuidPool[i] : i \in 1..issued} \cup {UnknownUuid, MalformedId}

\* One response put on the wire: its status line and, for an error, the JSON
\* body's error and details members (the error's name stands for its message).
Written(status, error, details) ==
    [status |-> status, error |-> error, details |-> details]

\* The body Router.handleRouteError writes for err.
errorBody(err) ==
    IF err.name \in AppErrorNames
    THEN Written(err.statusCode, err.name, err.allowedTypes)
    ELSE Written(500, "Internal Server Error", <<>>)

\* handleRouteError writing although the response has already ended.
Rejected_WritesAfterEnd(q, err) ==
    [q EXCEPT !.pc = "done", !.err = err, !.status = handleRouteError(err),
              !.ended = TRUE, !.written = Append(@, errorBody(err))]

\* The handler's promise rejects with err: Router.addRoute's catch hands it to
\* handleRouteError, which returns at once when the response has ended and
\* writes the error's status and body otherwise.
Rejected(q, err) ==
    IF q.ended
    THEN [q EXCEPT !.pc = "done", !.err = err]
    ELSE [q EXCEPT !.pc = "done", !.err = err, !.status = handleRouteError(err),
                   !.ended = TRUE, !.written = Append(@, errorBody(err))]

\* The handler writes its response with res.writeHead(status) and
\* res.end(body).  On a response that has ended writeHead throws (the headers
\* were sent), the handler's promise rejects with that error and
\* handleRouteError returns without writing.
Responded(q, status, resp) ==
    IF q.ended
    THEN Rejected(q, PlainError)
    ELSE [q EXCEPT !.pc = "done", !.status = status, !.resp = resp,
                   !.ended = TRUE, !.written = Append(@, Written(status, "", <<>>))]

\* The handler awaits an S3Service call on key.
Awaiting(q, pc, key) == [q EXCEPT !.pc = pc, !.key = key, !.s3res = "none"]

Called(q, what) == [q EXCEPT !.calls = Append(q.calls, what)]

\* ----------------------------------------------------------- object store

\* S3Put with the object's ContentType taken from the part's declared type.
S3Put_DeclaredType(r) ==
    /\ req[r].pc = "put_wait"
    /\ \/ /\ s3' = PutObject(s3, req[r].key,
                             S3Object(req[r].file.data, req[r].file.mimeType))
          /\ req' = [req EXCEPT ![r] =
                        Called([@ EXCEPT !.pc = "put_ret", !.s3res = "ok"], "put_ok")]
       \/ \E code \in PutFaults :
             /\ s3' = s3
             /\ req' = [req EXCEPT ![r] =
                           Called([@ EXCEPT !.pc = "put_ret", !.s3res = code],
                                  "put_fail")]
    /\ UNCHANGED <<meta, issued, now, call>>

\* The backend performs a PutObject that a handler awaits, or fails it.
S3Put(r) ==
    /\ req[r].pc = "put_wait"
    /\ \/ /\ s3' = PutObject(s3, req[r].key,
                             S3Object(req[r].file.data, req[r].mimeType))
          /\ req' = [req EXCEPT ![r] =
                        Called([@ EXCEPT !.pc = "put_ret", !.s3res = "ok"], "put_ok")]
       \/ \E code \in PutFaults :
             /\ s3' = s3
             /\ req' = [req EXCEPT ![r] =
                           Called([@ EXCEPT !.pc = "put_ret", !.s3res = code],
                                  "put_fail")]
    /\ UNCHANGED <<meta, issued, now, call>>

\* The backend performs a DeleteObject that a handler awaits, or fails it.  For
\* a key that holds no object the backend answers success or NoSuchKey.
S3Delete(r) ==
    /\ req[r].pc = "rm_wait"
    /\ \/ /\ s3' = DeleteObject(s3, req[r].key)
          /\ req' = [req EXCEPT ![r] =
                        Called([@ EXCEPT !.pc = "rm_ret", !.s3res = "ok"], "rm_ok")]
       \/ \E code \in RemoveFaults
                        \cup (IF req[r].key \in DOMAIN s3 THEN {} ELSE {"NoSuchKey"}) :
             /\ s3' = s3
             /\ req' = [req EXCEPT ![r] =
                           Called([@ EXCEPT !.pc = "rm_ret", !.s3res = code],
                                  "rm_fail")]
    /\ UNCHANGED <<meta, issued, now, call>>

\* The backend answers a GetObject that a handler awaits.
S3Get(r) ==
    /\ req[r].pc = "get_wait"
    /\ \/ /\ req[r].key \in DOMAIN s3
          /\ req' = [req EXCEPT ![r] =
                        Called([@ EXCEPT !.pc = "get_ret", !.s3res = "ok",
                                         !.got = <<s3[req[r].key]>>], "get_ok")]
       \/ \E code \in GetFaults
                        \cup (IF req[r].key \in DOMAIN s3 THEN StreamFaults
                                                            ELSE {"NoSuchKey"}) :
             req' = [req EXCEPT ![r] =
                        Called([@ EXCEPT !.pc = "get_ret", !.s3res = code],
                               "get_fail")]
    /\ UNCHANGED <<meta, s3, issued, now, call>>

\* ------------------------------------------------------------------ upload

\* MediaController.uploadFile up to `await parseMultipartBody`
UploadBegin(r) ==
    /\ Arrives(r)
    /\ \/ req' = [req EXCEPT ![r] = Rejected([@ EXCEPT !.op = "upload"], BadRequestError)]
       \/ \E parts \in Bodies :
             req' = [req EXCEPT ![r] =
                        [@ EXCEPT !.op = "upload", !.pc = "parse", !.parts = parts]]
    /\ UNCHANGED <<meta, s3, issued, now, call>>

\* MediaController.uploadFile from the parsed body to `await s3Service.upload`
UploadParsed(r) ==
    /\ req[r].op = "upload"
    /\ req[r].pc = "parse"
    /\ \E parsed \in parseMultipartBody(req[r].parts) :
       LET file == parsed.files[1]
           mimeType == resolveMimeType(file)
           fileId == UuidPool[issued + 1]
       IN  IF parsed.err # NoError
           THEN /\ req' = [req EXCEPT ![r] = Rejected(@, parsed.err)]
                /\ issued' = issued
           ELSE IF Len(parsed.files) = 0
           THEN /\ req' = [req EXCEPT ![r] = Rejected(@, BadRequestError)]
                /\ issued' = issued
           ELSE IF validate(file.data, mimeType, file.filename) # NoError
           THEN /\ req' = [req EXCEPT ![r] =
                              Rejected(@, validate(file.data, mimeType, file.filename))]
                /\ issued' = issued
           ELSE /\ req' = [req EXCEPT ![r] =
                              Awaiting([@ EXCEPT !.file = file, !.mimeType = mimeType,
                                                 !.id = fileId],
                                       "put_wait", S3Key(fileId, file.filename))]
                /\ issued' = issued + 1
    /\ UNCHANGED <<meta, s3, now, call>>

\* UploadStored with the row saved before the upload's outcome is looked at.
UploadStored_SavesAnyway(r) ==
    /\ req[r].op = "upload"
    /\ req[r].pc = "put_ret"
    /\ \E t \in {now, now + 1} :
          LET metadata ==
                  FileMetadata(req[r].id, req[r].file.filename, req[r].mimeType,
                               Len(req[r].file.data), req[r].key, Bucket, t)
          IN  /\ now' = t
              /\ meta' = save(meta, metadata)
              /\ req' = [req EXCEPT ![r] =
                            IF req[r].s3res # "ok"
                            THEN Rejected(@, mapS3Error(req[r].s3res))
                            ELSE IF saveThrows(meta, metadata)
                            THEN Rejected(@, PlainError)
                            ELSE Responded(Called(@, "insert"), 201,
                                           [NoResponse EXCEPT
                                               !.file = <<toResponse(metadata)>>])]
    /\ UNCHANGED <<s3, issued, call>>

\* UploadStored deleting the stored object again when the insert fails.
UploadStored_Compensates(r) ==
    /\ req[r].op = "upload"
    /\ req[r].pc = "put_ret"
    /\ IF req[r].s3res # "ok"
       THEN /\ req' = [req EXCEPT ![r] = Rejected(@, mapS3Error(req[r].s3res))]
            /\ UNCHANGED <<meta, now, s3>>
       ELSE \E t \in {now, now + 1}, fault \in {"none"} \cup InsertFaults :
              LET metadata ==
                      FileMetadata(req[r].id, req[r].file.filename, req[r].mimeType,
                                   Len(req[r].file.data), req[r].key, Bucket, t)
                  throws == fault # "none" \/ saveThrows(meta, metadata)
              IN  /\ now' = t
                  /\ meta' = IF throws THEN meta ELSE save(meta, metadata)
                  /\ s3' = IF throws
                           THEN [k \in DOMAIN s3 \ {req[r].key} |-> s3[k]]
                           ELSE s3
                  /\ req' = [req EXCEPT ![r] =
                                IF throws
                                THEN Rejected(@, PlainError)
                                ELSE Responded(Called(@, "insert"), 201,
                                               [NoResponse EXCEPT
                                                   !.file = <<toResponse(metadata)>>])]
    /\ UNCHANGED <<issued, call>>

\* MediaController.uploadFile after `await s3Service.upload`: the row is built
\* and saved with no try around it, so an insert that throws (a duplicate id,
\* or the database refusing the write) rejects the handler as it is.
UploadStored(r) ==
    /\ req[r].op = "upload"
    /\ req[r].pc = "put_ret"
    /\ IF req[r].s3res # "ok"
       THEN /\ req' = [req EXCEPT ![r] = Rejected(@, mapS3Error(req[r].s3res))]
            /\ UNCHANGED <<meta, now>>
       ELSE \E t \in {now, now + 1}, fault \in {"none"} \cup InsertFaults :
              LET metadata ==
                      FileMetadata(req[r].id, req[r].file.filename, req[r].mimeType,
                                   Len(req[r].file.data), req[r].key, Bucket, t)
                  throws == fault # "none" \/ saveThrows(meta, metadata)
              IN  /\ now' = t
                  /\ meta' = IF throws THEN meta ELSE save(meta, metadata)
                  /\ req' = [req EXCEPT ![r] =
                                IF throws
                                THEN Rejected(@, PlainError)
                                ELSE Responded(Called(@, "insert"), 201,
                                               [NoResponse EXCEPT
                                                   !.file = <<toResponse(metadata)>>])]
    /\ UNCHANGED <<s3, issued, call>>

\* --------------------------------------------------------------------- get

\* MediaController.getFile up to `await s3Service.download`
GetBegin(r) ==
    /\ Arrives(r)
    /\ \E id \in RequestIds :
          LET q == [req[r] EXCEPT !.op = "get", !.id = id]
              metadata == findById(meta, id)
          IN  req' = [req EXCEPT ![r] =
                         IF ~uuidValidate(id) THEN Rejected(q, BadRequestError)
                         ELSE IF metadata = <<>> THEN Rejected(q, NotFoundError)
                         ELSE Awaiting([q EXCEPT !.existing = metadata],
                                       "get_wait", metadata[1].s3Key)]
    /\ UNCHANGED <<meta, s3, issued, now, call>>

\* MediaController.getFile after `await s3Service.download`
GetFetched(r) ==
    /\ req[r].op = "get"
    /\ req[r].pc = "get_ret"
    /\ req' = [req EXCEPT ![r] =
                  IF req[r].s3res \in StreamFaults
                  THEN Rejected(@, PlainError)
                  ELSE IF req[r].s3res # "ok"
                  THEN Rejected(@, mapS3Error(req[r].s3res))
                  ELSE Responded(@, 200,
                                 [NoResponse EXCEPT
                                     !.data = req[r].got[1].data,
                                     !.contentType = req[r].got[1].contentType])]
    /\ UNCHANGED <<meta, s3, issued, now, call>>

\* ----------------------------------------------------------------- replace

\* ReplaceBegin with the record looked up before the id's syntax is checked.
ReplaceBegin_LookupFirst(r) ==
    /\ Arrives(r)
    /\ \E id \in RequestIds :
          LET q == [req[r] EXCEPT !.op = "replace", !.id = id]
              existing == findById(meta, id)
          IN  IF existing = <<>>
              THEN req' = [req EXCEPT ![r] = Rejected(q, NotFoundError)]
              ELSE IF ~uuidValidate(id)
              THEN req' = [req EXCEPT ![r] = Rejected(q, BadRequestError)]
              ELSE \/ req' = [req EXCEPT ![r] =
                                 Rejected([q EXCEPT !.existing = existing],
                                          BadRequestError)]
                   \/ \E parts \in Bodies :
                         req' = [req EXCEPT ![r] =
                                    [q EXCEPT !.pc = "parse", !.parts = parts,
                                              !.existing = existing]]
    /\ UNCHANGED <<meta, s3, issued, now, call>>

\* MediaController.updateFile up to `await parseMultipartBody`
ReplaceBegin(r) ==
    /\ Arrives(r)
    /\ \E id \in RequestIds :
          LET q == [req[r] EXCEPT !.op = "replace", !.id = id]
              existing == findById(meta, id)
          IN  IF ~uuidValidate(id)
              THEN req' = [req EXCEPT ![r] = Rejected(q, BadRequestError)]
              ELSE IF existing = <<>>
              THEN req' = [req EXCEPT ![r] = Rejected(q, NotFoundError)]
              ELSE \/ req' = [req EXCEPT ![r] =
                                 Rejected([q EXCEPT !.existing = existing],
                                          BadRequestError)]
                   \/ \E parts \in Bodies :
                         req' = [req EXCEPT ![r] =
                                    [q EXCEPT !.pc = "parse", !.parts = parts,
                                              !.existing = existing]]
    /\ UNCHANGED <<meta, s3, issued, now, call>>

\* ReplaceParsed with the old object's removal issued before validation.
ReplaceParsed_RemovesUnvalidated(r) ==
    /\ req[r].op = "replace"
    /\ req[r].pc = "parse"
    /\ \E parsed \in parseMultipartBody(req[r].parts) :
       LET file == parsed.files[1]
           mimeType == resolveMimeType(file)
       IN  req' = [req EXCEPT ![r] =
                      IF parsed.err # NoError THEN Rejected(@, parsed.err)
                      ELSE IF Len(parsed.files) = 0 THEN Rejected(@, BadRequestError)
                      ELSE Awaiting([@ EXCEPT !.file = file, !.mimeType = mimeType],
                                    "rm_wait", req[r].existing[1].s3Key)]
    /\ UNCHANGED <<meta, s3, issued, now, call>>

\* ReplaceParsed going straight to the upload, the old object left in place.
ReplaceParsed_SkipsRemove(r) ==
    /\ req[r].op = "replace"
    /\ req[r].pc = "parse"
    /\ \E parsed \in parseMultipartBody(req[r].parts) :
       LET file == parsed.files[1]
           mimeType == resolveMimeType(file)
       IN  req' = [req EXCEPT ![r] =
                      IF parsed.err # NoError THEN Rejected(@, parsed.err)
                      ELSE IF Len(parsed.files) = 0 THEN Rejected(@, BadRequestError)
                      ELSE IF validate(file.data, mimeType, file.filename) # NoError
                      THEN Rejected(@, validate(file.data, mimeType, file.filename))
                      ELSE Awaiting([@ EXCEPT !.file = file, !.mimeType = mimeType],
                                    "put_wait", S3Key(req[r].id, file.filename))]
    /\ UNCHANGED <<meta, s3, issued, now, call>>

\* MediaController.updateFile from the parsed body to `await s3Service.remove`
ReplaceParsed(r) ==
    /\ req[r].op = "replace"
    /\ req[r].pc = "parse"
    /\ \E parsed \in parseMultipartBody(req[r].parts) :
       LET file == parsed.files[1]
           mimeType == resolveMimeType(file)
       IN  req' = [req EXCEPT ![r] =
                      IF parsed.err # NoError THEN Rejected(@, parsed.err)
                      ELSE IF Len(parsed.files) = 0 THEN Rejected(@, BadRequestError)
                      ELSE IF validate(file.data, mimeType, file.filename) # NoError
                      THEN Rejected(@, validate(file.data, mimeType, file.filename))
                      ELSE Awaiting([@ EXCEPT !.file = file, !.mimeType = mimeType],
                                    "rm_wait", req[r].existing[1].s3Key)]
    /\ UNCHANGED <<meta, s3, issued, now, call>>

\* MediaController.updateFile from `await s3Service.remove` to
\* `await s3Service.upload`
ReplaceRemoved(r) ==
    /\ req[r].op = "replace"
    /\ req[r].pc = "rm_ret"
    /\ req' = [req EXCEPT ![r] =
                  IF req[r].s3res # "ok"
                  THEN Rejected(@, mapS3Error(req[r].s3res))
                  ELSE Awaiting(@, "put_wait", S3Key(req[r].id, req[r].file.filename))]
    /\ UNCHANGED <<meta, s3, issued, now, call>>

\* ReplaceStored with the update written as an upsert: a row that is gone is
\* inserted again.
ReplaceStored_Upserts(r) ==
    /\ req[r].op = "replace"
    /\ req[r].pc = "put_ret"
    /\ IF req[r].s3res # "ok"
       THEN /\ req' = [req EXCEPT ![r] = Rejected(@, mapS3Error(req[r].s3res))]
            /\ UNCHANGED <<meta, now>>
       ELSE \E t \in {now, now + 1} :
              LET fields ==
                      [originalName |-> req[r].file.filename,
                       mimeType |-> req[r].mimeType,
                       size |-> Len(req[r].file.data),
                       s3Key |-> req[r].key,
                       s3Bucket |-> Bucket,
                       uploadedAt |-> t]
                  updated == Merge(req[r].existing[1], fields)
              IN  /\ now' = t
                  /\ meta' = IF req[r].id \in DOMAIN meta
                             THEN update(meta, req[r].id, fields)
                             ELSE save(meta, updated)
                  /\ req' = [req EXCEPT ![r] =
                                Responded(Called(@, "update"), 200,
                                          [NoResponse EXCEPT
                                              !.file = <<toResponse(updated)>>])]
    /\ UNCHANGED <<s3, issued, call>>

\* MediaController.updateFile after `await s3Service.upload`
ReplaceStored(r) ==
    /\ req[r].op = "replace"
    /\ req[r].pc = "put_ret"
    /\ IF req[r].s3res # "ok"
       THEN /\ req' = [req EXCEPT ![r] = Rejected(@, mapS3Error(req[r].s3res))]
            /\ UNCHANGED <<meta, now>>
       ELSE \E t \in {now, now + 1} :
              LET fields ==
                      [originalName |-> req[r].file.filename,
                       mimeType |-> req[r].mimeType,
                       size |-> Len(req[r].file.data),
                       s3Key |-> req[r].key,
                       s3Bucket |-> Bucket,
                       uploadedAt |-> t]
                  updated == updateResult(meta, req[r].id, fields)
              IN  /\ now' = t
                  /\ meta' = update(meta, req[r].id, fields)
                  /\ req' = [req EXCEPT ![r] =
                                \* toResponse(updated!) throws a TypeError on undefined
                                IF updated = <<>>
                                THEN Rejected(@, PlainError)
                                ELSE Responded(Called(@, "update"), 200,
                                               [NoResponse EXCEPT
                                                   !.file = <<toResponse(updated[1])>>])]
    /\ UNCHANGED <<s3, issued, call>>

\* ------------------------------------------------------------------ delete

\* DeleteBegin without the lookup's NotFoundError: an unknown id is answered 200.
DeleteBegin_NoNotFound(r) ==
    /\ Arrives(r)
    /\ \E id \in RequestIds :
          LET q == [req[r] EXCEPT !.op = "delete", !.id = id]
              metadata == findById(meta, id)
          IN  req' = [req EXCEPT ![r] =
                         IF ~uuidValidate(id) THEN Rejected(q, BadRequestError)
                         ELSE IF metadata = <<>>
                         THEN Responded(q, 200, [NoResponse EXCEPT !.id = id])
                         ELSE Awaiting([q EXCEPT !.existing = metadata],
                                       "rm_wait", metadata[1].s3Key)]
    /\ UNCHANGED <<meta, s3, issued, now, call>>

\* MediaController.deleteFile up to `await s3Service.remove`
DeleteBegin(r) ==
    /\ Arrives(r)
    /\ \E id \in RequestIds :
          LET q == [req[r] EXCEPT !.op = "delete", !.id = id]
              metadata == findById(meta, id)
          IN  req' = [req EXCEPT ![r] =
                         IF ~uuidValidate(id) THEN Rejected(q, BadRequestError)
                         ELSE IF metadata = <<>> THEN Rejected(q, NotFoundError)
                         ELSE Awaiting([q EXCEPT !.existing = metadata],
                                       "rm_wait", metadata[1].s3Key)]
    /\ UNCHANGED <<meta, s3, issued, now, call>>

\* DeleteRemoved with the row deleted whatever the removal's outcome.
DeleteRemoved_DropsRowAnyway(r) ==
    /\ req[r].op = "delete"
    /\ req[r].pc = "rm_ret"
    /\ meta' = delete(meta, req[r].id)
    /\ req' = [req EXCEPT ![r] =
                  IF req[r].s3res # "ok"
                  THEN Rejected(@, mapS3Error(req[r].s3res))
                  ELSE Responded(Called(@, "delete"), 200,
                                 [NoResponse EXCEPT !.id = req[r].id])]
    /\ UNCHANGED <<s3, issued, now, call>>

\* MediaController.deleteFile after `await s3Service.remove`
DeleteRemoved(r) ==
    /\ req[r].op = "delete"
    /\ req[r].pc = "rm_ret"
    /\ IF req[r].s3res # "ok"
       THEN /\ req' = [req EXCEPT ![r] = Rejected(@, mapS3Error(req[r].s3res))]
            /\ meta' = meta
       ELSE /\ meta' = delete(meta, req[r].id)
            /\ req' = [req EXCEPT ![r] =
                          Responded(Called(@, "delete"), 200,
                                    [NoResponse EXCEPT !.id = req[r].id])]
    /\ UNCHANGED <<s3, issued, now, call>>

\* ----------------------------------------------------------- specification

Next ==
    \E r \in Requests :
        \/ UploadBegin(r)
        \/ UploadParsed(r)
        \/ UploadStored(r)
        \/ GetBegin(r)
        \/ GetFetched(r)
        \/ ReplaceBegin(r)
        \/ ReplaceParsed(r)
        \/ ReplaceRemoved(r)
        \/ ReplaceStored(r)
        \/ DeleteBegin(r)
        \/ DeleteRemoved(r)
        \/ S3Put(r)
        \/ S3Delete(r)
        \/ S3Get(r)

Spec == Init /\ [][Next]_vars

\* ---------------------------------------------------- sequential clients

\* No request is being handled.
Quiet == \A q \in Requests : req[q].pc \in {"idle", "done"}

\* Clients that send a request only after the one before it was answered: a
\* handler starts when no other is running.
SeqUploadBegin(r) == Quiet /\ UploadBegin(r)

SeqGetBegin(r) == Quiet /\ GetBegin(r)

SeqReplaceBegin(r) == Quiet /\ ReplaceBegin(r)

SeqDeleteBegin(r) == Quiet /\ DeleteBegin(r)

SeqNext ==
    \E r \in Requests :
        \/ SeqUploadBegin(r)
        \/ SeqGetBegin(r)
        \/ SeqReplaceBegin(r)
        \/ SeqDeleteBegin(r)
        \/ UploadParsed(r)
        \/ UploadStored(r)
        \/ GetFetched(r)
        \/ ReplaceParsed(r)
        \/ ReplaceRemoved(r)
        \/ ReplaceStored(r)
        \/ DeleteRemoved(r)
        \/ S3Put(r)
        \/ S3Delete(r)
        \/ S3Get(r)

SeqSpec == Init /\ [][SeqNext]_vars

\* ------------------------------------------------------- request timeout

\* How many requests the server handles under its timer.
NumTimed == 1

TimedRequests == 1..NumTimed

\* A timer that runs only while the request body is being read.
Timeout_OnlyWhileParsing(r) ==
    /\ req[r].pc = "parse"
    /\ ~req[r].ended
    /\ req' = [req EXCEPT ![r] =
                  [@ EXCEPT !.status = 408, !.ended = TRUE,
                            !.written = Append(@, Written(408, "Request Timeout", <<>>))]]
    /\ UNCHANGED <<meta, s3, issued, now, call>>

\* HttpServer's res.setTimeout callback, set before router.resolve runs the
\* handler to its first await: it writes 408 unless the response has ended, and
\* touches neither the handler nor the calls it is waiting for.
Timeout(r) ==
    /\ req[r].pc # "idle"
    /\ req' = [req EXCEPT ![r] =
                  IF @.ended THEN @
                  ELSE [@ EXCEPT !.status = 408, !.ended = TRUE,
                                 !.written = Append(@, Written(408, "Request Timeout", <<>>))]]
    /\ UNCHANGED <<meta, s3, issued, now, call>>

TimedNext ==
    \E r \in TimedRequests :
        \/ UploadBegin(r)
        \/ UploadParsed(r)
        \/ UploadStored(r)
        \/ GetBegin(r)
        \/ GetFetched(r)
        \/ ReplaceBegin(r)
        \/ ReplaceParsed(r)
        \/ ReplaceRemoved(r)
        \/ ReplaceStored(r)
        \/ DeleteBegin(r)
        \/ DeleteRemoved(r)
        \/ S3Put(r)
        \/ S3Delete(r)
        \/ S3Get(r)
        \/ Timeout(r)

\* The timer is the only step that is sure to come: a body stream or a store
\* call may stay pending for ever.
TimedSpec ==
    Init /\ [][TimedNext]_vars /\ \A r \in TimedRequests : WF_vars(Timeout(r))

\* ------------------------------------------------------------ direct calls

\* The validator and the metadata store called directly, as their unit tests
\* call them: one call of validate or getMimeTypeFromExtension with inputs
\* drawn from the sets below, or two save calls issued together.

\* A signature followed by zero bytes, n bytes in all.
Pad(sig, n) == sig \o [i \in 1..(n - Len(sig)) |-> 0]

Signatures == UNION {MAGIC_BYTES(m) : m \in ALLOWED_MIME_TYPES}

\* The limits a validator is constructed with.
Limits == 1..MaxFileSizeBytes

\* File contents: nothing; every signature padded to every length up to one
\* byte over the largest limit; the same with the first byte changed; every
\* proper prefix of a signature.
Contents ==
    {<<>>}
      \cup UNION {{Pad(sig, n) : n \in Len(sig)..(MaxFileSizeBytes + 1)} :
                    sig \in Signatures}
      \cup UNION {{[Pad(sig, n) EXCEPT ![1] = 0] :
                       n \in Len(sig)..(MaxFileSizeBytes + 1)} : sig \in Signatures}
      \cup UNION {{SubSeq(sig, 1, k) : k \in 1..(Len(sig) - 1)} : sig \in Signatures}

DeclaredTypes == ALLOWED_MIME_TYPES \cup {ImageJpegUpper, TextPlain, OctetStream}

Filenames ==
    {<<"a",".","j","p","g">>, <<"b",".","J","P","G">>, <<"p",".","j","p","e","g">>,
     <<"x",".","p","n","g">>, <<"x",".","G","i","f">>, <<"d","o","c",".","p","d","f">>,
     <<"f",".","b","m","p">>, <<"R","E","A","D","M","E">>, <<"p","n","g">>,
     <<"a",".","t","a","r",".","p","d","f">>, <<"a",".","p","d","f",".","t","x","t">>,
     <<".","j","p","g">>, <<"x",".">>, <<"x",".","j","p","g","x">>,
     <<"x","j","p","g">>, <<>>}

ValidateCalls ==
    {[NoCall EXCEPT !.fn = "validate", !.pc = "called", !.limit = l,
                    !.fileData = d, !.mimeType = t, !.filename = <<"f">>] :
        l \in Limits, d \in Contents, t \in DeclaredTypes}

ExtensionCalls ==
    {[NoCall EXCEPT !.fn = "getMimeTypeFromExtension", !.pc = "called",
                    !.filename = f] : f \in Filenames}

\* The key derivation of uploadFile and updateFile, for a file id and the
\* filename of the uploaded part.
KeyCalls ==
    {[fn |-> "s3Key", pc |-> "called", fileId |-> i, filename |-> f, key |-> <<>>] :
        i \in {UuidPool[1], UuidPool[2]}, f \in Filenames}

\* The rows two save calls may carry: of id u1 or u2, from a.jpg or doc.pdf.
SaveRows ==
    {FileMetadata(i, f.filename, resolveMimeType(f), Len(f.data),
                  S3Key(i, f.filename), Bucket, 0) :
        i \in {UuidPool[1], UuidPool[2]}, f \in {FileA, FileDoc}}

SaveCalls ==
    {[NoCall EXCEPT !.fn = "save", !.pc = "called", !.rows = <<m1, m2>>,
                    !.outcomes = <<"pending", "pending">>] :
        m1 \in SaveRows, m2 \in SaveRows}

\* ---- a session of calls on one MetadataStore

\* The records a session saves: of id u1 or u2, a.jpg uploaded at 0 or
\* doc.pdf uploaded at 1.
StoreRows ==
    {FileMetadata(i, v[1].filename, resolveMimeType(v[1]), Len(v[1].data),
                  S3Key(i, v[1].filename), Bucket, v[2]) :
        i \in {UuidPool[1], UuidPool[2]}, v \in {<<FileA, 0>>, <<FileDoc, 1>>}}

\* The ids a session asks for: u1, u2, and one it never saves.
StoreIds == {UuidPool[1], UuidPool[2], UuidPool[3]}

\* The partial records a session passes to update: none of the fields, one
\* field, the name and type, the time, and sets that carry an id.
NoFields == [f \in {} |-> 0]

UpdateFields ==
    {NoFields,
     [size |-> 9],
     [originalName |-> FileDoc.filename, mimeType |-> ApplicationPdf],
     [uploadedAt |-> 0],
     [id |-> UuidPool[1], size |-> 9],
     [id |-> UuidPool[2]]}

\* op is the last call, row / id / fields its arguments, before the table it
\* ran on, threw / found / changed / listed what it returned; rowids is the
\* table's ids in rowid order and ties the sorter's treatment of equal keys;
\* present is the set of ids saved and not deleted since; earlier holds the
\* table and the result of the findAll before the last one.
StoreSession(ties) ==
    [fn |-> "store", op |-> "none", steps |-> 0, row |-> <<>>, id |-> "",
     fields |-> NoFields, before |-> <<>>, threw |-> FALSE, found |-> <<>>,
     changed |-> FALSE, listed |-> <<>>, listedOf |-> <<>>, rowids |-> <<>>,
     ties |-> ties, present |-> {}, earlier |-> <<>>]

StoreCalls == {StoreSession(ties) : ties \in {"scan", "reversed"}}

\* What every call of a session keeps of the session's record.
StoreCall(op) ==
    [StoreSession(call.ties) EXCEPT
        !.op = op, !.steps = call.steps + 1, !.before = meta,
        !.rowids = call.rowids, !.present = call.present,
        !.listed = call.listed, !.listedOf = call.listedOf,
        !.earlier = call.earlier]

Without(seq, x) == SelectSeq(seq, LAMBDA y : y # x)

\* ---- one call on the S3Service

\* What client.send rejects with: an error of a name the mapping lists or of
\* another name or of none, with a message or without.
NoFailure == [name |-> "none", message |-> ""]

BackendErrors ==
    {[name |-> n, message |-> m] :
        n \in {"NoSuchKey", "NotFound", "NoSuchBucket", "AccessDenied", "Forbidden",
               "InvalidAccessKeyId", "SignatureDoesNotMatch", "RequestTimeout",
               "TimeoutError", "SlowDown", ""},
        m \in {"", "Something very strange happened"}}

\* The keys a call names: the stored object's, and one that holds nothing.
AdapterKeys == {S3Key(UuidPool[1], FileA.filename), S3Key(UuidPool[2], FileA.filename)}

\* failure is what client.send rejects with, if it does; stream tells whether
\* reading the response body, once send has resolved, ends or fails; thrown
\* is what the call rejects with, message that error's message, got what the
\* call resolves with.
AdapterCall(operation, key, failure, stream) ==
    [fn |-> "s3", pc |-> "called", operation |-> operation, key |-> key,
     failure |-> failure, stream |-> stream, thrown |-> NoError,
     message |-> <<>>, got |-> <<>>]

AdapterCalls ==
    {AdapterCall("upload", k, f, "none") :
        k \in AdapterKeys, f \in BackendErrors \cup {NoFailure}}
      \cup {AdapterCall("delete", k, f, "none") :
               k \in AdapterKeys, f \in BackendErrors \cup {NoFailure}}
      \cup {AdapterCall("download", k, f, "none") :
               k \in AdapterKeys, f \in BackendErrors}
      \cup {AdapterCall("download", S3Key(UuidPool[1], FileA.filename), NoFailure, st) :
               st \in {"ends", "fails"}}

\* The rejection of a call whose client.send failed.
Mapped(c) ==
    [c EXCEPT !.pc = "returned",
              !.thrown = mapS3Error(c.failure.name),
              !.message = mapS3ErrorMessage(c.failure.name, c.failure.message,
                                            c.operation, c.key)]

\* ---- one call of parseMultipartBody, event by event

\* full.gif: the GIF89a signature padded to exactly the limit
FileFull ==
    ParsedFile(<<"f","u","l","l",".","g","i","f">>, ImageGif,
               Pad(<<71, 73, 70, 56, 57, 97>>, MaxFileSizeBytes))

\* The file parts of the request bodies decoded: up to three parts, each
\* below, at or over the size limit.
DecoderBodies ==
    {<<>>}
      \cup {<<f>> : f \in {FileC, FileFull, FileBig}}
      \cup {<<f, g>> : f, g \in {FileC, FileFull, FileBig}}
      \cup {<<f, g, FileC>> : f, g \in {FileC, FileBig}}

\* How the body is framed: well; cut short before its closing boundary, which
\* busboy reports with an "error" event at the end of the input; or by a
\* Content-Type that names no boundary, for which Busboy() throws.
Framings == {"ok", "cut", "noboundary"}

\* next is the part the parser reaches next; opened, truncated and ended are
\* the parts whose file stream was handed to the "file" listener, emitted
\* "limit", emitted "end"; files and rejected are the function's variables;
\* hitFilesLimit and closed are busboy's; settled, thrown and resolved are
\* the promise.
DecodeCall(parts, framing) ==
    [fn |-> "decode", pc |-> "called", parts |-> parts, framing |-> framing,
     next |-> 1, opened |-> {}, truncated |-> {}, ended |-> {}, files |-> <<>>,
     rejected |-> FALSE, hitFilesLimit |-> FALSE, closed |-> FALSE,
     settled |-> "pending", thrown |-> NoError, resolved |-> <<>>]

DecodeCalls == {DecodeCall(b, fr) : b \in DecoderBodies, fr \in Framings}

\* reject(err) and resolve(files): a promise settles once.
Reject(c, err) ==
    IF c.settled = "pending" THEN [c EXCEPT !.settled = "rejected", !.thrown = err]
    ELSE c

Resolve(c, files) ==
    IF c.settled = "pending" THEN [c EXCEPT !.settled = "resolved", !.resolved = files]
    ELSE c

\* The bytes the "data" listener has collected when the stream ends: busboy
\* passes on no more than limits.fileSize bytes of a part.
Chunks(part) ==
    SubSeq(part.data, 1, IF Len(part.data) > MaxFileSizeBytes
                         THEN MaxFileSizeBytes ELSE Len(part.data))

DirectInit ==
    /\ req = [r \in Requests |-> IdleRequest]
    /\ now = 0
    /\ \/ /\ StartsWith(<<>>)
          /\ call \in ValidateCalls \cup ExtensionCalls \cup KeyCalls \cup SaveCalls
                       \cup StoreCalls
       \/ /\ StartsWith(<<FileA>>)
          /\ call \in AdapterCalls \cup DecodeCalls

\* validator.validate(fileData, mimeType, filename)
CallValidate ==
    /\ call.fn = "validate"
    /\ call.pc = "called"
    /\ call' = [call EXCEPT
                   !.pc = "returned",
                   !.result = validateWith(call.limit, call.fileData,
                                           call.mimeType, call.filename)]
    /\ UNCHANGED <<meta, s3, req, issued, now>>

\* validator.getMimeTypeFromExtension(filename)
CallGetMimeTypeFromExtension ==
    /\ call.fn = "getMimeTypeFromExtension"
    /\ call.pc = "called"
    /\ call' = [call EXCEPT
                   !.pc = "returned",
                   !.detected = getMimeTypeFromExtension(call.filename)]
    /\ UNCHANGED <<meta, s3, req, issued, now>>

\* ext = filename.substring(filename.lastIndexOf(".")) and
\* s3Key = `uploads/${fileId}${ext}`
CallS3Key ==
    /\ call.fn = "s3Key"
    /\ call.pc = "called"
    /\ call' = [call EXCEPT !.pc = "returned",
                            !.key = S3Key(call.fileId, call.filename)]
    /\ UNCHANGED <<meta, s3, req, issued, now>>

\* store.save(rows[i]): the statement runs synchronously, so the two calls
\* execute one after the other in either order.
CallSave(i) ==
    /\ call.fn = "save"
    /\ call.outcomes[i] = "pending"
    /\ meta' = save(meta, call.rows[i])
    /\ call' = [call EXCEPT
                   !.outcomes[i] = IF saveThrows(meta, call.rows[i])
                                   THEN "throws" ELSE "ok",
                   !.pc = IF \A j \in DOMAIN call.outcomes \ {i} :
                                call.outcomes[j] # "pending"
                          THEN "returned" ELSE "called"]
    /\ UNCHANGED <<s3, req, issued, now>>

\* store.save(m) in a session
SessionSave ==
    /\ call.fn = "store"
    /\ call.steps < MaxStoreOps
    /\ \E m \in StoreRows :
          /\ meta' = save(meta, m)
          /\ call' = [StoreCall("save") EXCEPT
                         !.row = <<m>>,
                         !.threw = saveThrows(meta, m),
                         !.rowids = IF saveThrows(meta, m) THEN call.rowids
                                    ELSE Append(call.rowids, m.id),
                         !.present = IF saveThrows(meta, m) THEN call.present
                                     ELSE call.present \cup {m.id}]
    /\ UNCHANGED <<s3, req, issued, now>>

\* store.findById(id) in a session
SessionFindById ==
    /\ call.fn = "store"
    /\ call.steps < MaxStoreOps
    /\ \E i \in StoreIds :
          call' = [StoreCall("findById") EXCEPT
                      !.id = i, !.found = findById(meta, i)]
    /\ UNCHANGED <<meta, s3, req, issued, now>>

\* store.findAll() in a session
SessionFindAll ==
    /\ call.fn = "store"
    /\ call.steps < MaxStoreOps
    /\ call' = [StoreCall("findAll") EXCEPT
                   !.listed = findAll(meta, call.rowids, call.ties),
                   !.listedOf = <<meta>>,
                   !.earlier = IF call.listedOf = <<>> THEN <<>>
                               ELSE <<[table |-> call.listedOf[1],
                                       listed |-> call.listed]>>]
    /\ UNCHANGED <<meta, s3, req, issued, now>>

\* store.update(id, fields) in a session
SessionUpdate ==
    /\ call.fn = "store"
    /\ call.steps < MaxStoreOps
    /\ \E i \in StoreIds, f \in UpdateFields :
          /\ meta' = update(meta, i, f)
          /\ call' = [StoreCall("update") EXCEPT
                         !.id = i, !.fields = f,
                         !.found = updateResult(meta, i, f)]
    /\ UNCHANGED <<s3, req, issued, now>>

\* store.delete(id) in a session
SessionDelete ==
    /\ call.fn = "store"
    /\ call.steps < MaxStoreOps
    /\ \E i \in StoreIds :
          /\ meta' = delete(meta, i)
          /\ call' = [StoreCall("delete") EXCEPT
                         !.id = i, !.changed = deleteResult(meta, i),
                         !.rowids = Without(call.rowids, i),
                         !.present = call.present \ {i}]
    /\ UNCHANGED <<s3, req, issued, now>>

\* s3Service.upload(key, body, contentType)
CallUpload ==
    /\ call.fn = "s3"
    /\ call.pc = "called"
    /\ call.operation = "upload"
    /\ IF call.failure # NoFailure
       THEN /\ call' = Mapped(call)
            /\ s3' = s3
       ELSE /\ call' = [call EXCEPT !.pc = "returned"]
            /\ s3' = PutObject(s3, call.key, S3Object(FileC.data, resolveMimeType(FileC)))
    /\ UNCHANGED <<meta, req, issued, now>>

\* s3Service.download(key): client.send inside the try, the for await over
\* response.Body after it.
CallDownload ==
    /\ call.fn = "s3"
    /\ call.pc = "called"
    /\ call.operation = "download"
    /\ call' = IF call.failure # NoFailure THEN Mapped(call)
               ELSE IF call.stream = "fails"
                    THEN [call EXCEPT !.pc = "returned", !.thrown = PlainError]
                    ELSE [call EXCEPT !.pc = "returned", !.got = <<s3[call.key]>>]
    /\ UNCHANGED <<meta, s3, req, issued, now>>

\* s3Service.remove(key)
CallRemove ==
    /\ call.fn = "s3"
    /\ call.pc = "called"
    /\ call.operation = "delete"
    /\ IF call.failure # NoFailure
       THEN /\ call' = Mapped(call)
            /\ s3' = s3
       ELSE /\ call' = [call EXCEPT !.pc = "returned"]
            /\ s3' = DeleteObject(s3, call.key)
    /\ UNCHANGED <<meta, req, issued, now>>

\* parseMultipartBody up to req.pipe(busboy): Busboy() throws into the catch,
\* or the listeners are attached.
DecoderStart ==
    /\ call.fn = "decode"
    /\ call.pc = "called"
    /\ call' = IF call.framing = "noboundary"
               THEN Reject([call EXCEPT !.pc = "piped", !.closed = TRUE], PlainError)
               ELSE [call EXCEPT !.pc = "piped"]
    /\ UNCHANGED <<meta, s3, req, issued, now>>

\* The parser reaches the next part: a file stream is handed to the "file"
\* listener, and emits "limit" if the part is longer than limits.fileSize; or
\* limits.files parts were seen already and busboy emits "filesLimit", once.
DecoderPart ==
    /\ call.fn = "decode"
    /\ call.pc = "piped"
    /\ ~call.closed
    /\ call.next <= Len(call.parts)
    /\ LET i == call.next
           c == [call EXCEPT !.next = i + 1]
       IN  call' =
             IF Cardinality(call.opened) < maxFiles
             THEN [c EXCEPT
                      !.opened = @ \cup {i},
                      !.truncated = IF Len(call.parts[i].data) > MaxFileSizeBytes
                                    THEN @ \cup {i} ELSE @]
             ELSE IF call.hitFilesLimit THEN c
             ELSE IF call.rejected THEN [c EXCEPT !.hitFilesLimit = TRUE]
             ELSE Reject([c EXCEPT !.hitFilesLimit = TRUE, !.rejected = TRUE],
                         BadRequestError)
    /\ UNCHANGED <<meta, s3, req, issued, now>>

\* DecoderFileEnd that pushes a truncated file like any other.
DecoderFileEnd_KeepsTruncated(i) ==
    /\ call.fn = "decode"
    /\ call.pc = "piped"
    /\ i \in call.opened \ call.ended
    /\ call' = [call EXCEPT
                   !.ended = @ \cup {i},
                   !.files = Append(@, [call.parts[i] EXCEPT
                                           !.data = Chunks(call.parts[i])])]
    /\ UNCHANGED <<meta, s3, req, issued, now>>

\* The "end" listener of the file stream of part i.
DecoderFileEnd(i) ==
    /\ call.fn = "decode"
    /\ call.pc = "piped"
    /\ i \in call.opened \ call.ended
    /\ call' = IF i \in call.truncated
               THEN Reject([call EXCEPT !.ended = @ \cup {i}, !.rejected = TRUE],
                           PayloadTooLargeError)
               ELSE [call EXCEPT
                        !.ended = @ \cup {i},
                        !.files = Append(@, [call.parts[i] EXCEPT
                                                !.data = Chunks(call.parts[i])])]
    /\ UNCHANGED <<meta, s3, req, issued, now>>

\* The "finish" listener: busboy emits finish when the input has ended and
\* every file stream has ended.
DecoderFinish ==
    /\ call.fn = "decode"
    /\ call.pc = "piped"
    /\ ~call.closed
    /\ call.framing = "ok"
    /\ call.next > Len(call.parts)
    /\ call.opened \subseteq call.ended
    /\ call' = IF call.rejected THEN [call EXCEPT !.closed = TRUE]
               ELSE Resolve([call EXCEPT !.closed = TRUE], call.files)
    /\ UNCHANGED <<meta, s3, req, issued, now>>

\* The "error" listener: the input ended before the closing boundary and
\* busboy emits its error, which the listener passes to reject as it is.
DecoderError ==
    /\ call.fn = "decode"
    /\ call.pc = "piped"
    /\ ~call.closed
    /\ call.framing = "cut"
    /\ call.next > Len(call.parts)
    /\ call' = IF call.rejected THEN [call EXCEPT !.closed = TRUE]
               ELSE Reject([call EXCEPT !.closed = TRUE, !.rejected = TRUE],
                           PlainError)
    /\ UNCHANGED <<meta, s3, req, issued, now>>

DirectNext ==
    \/ CallValidate
    \/ CallGetMimeTypeFromExtension
    \/ CallS3Key
    \/ \E i \in 1..2 : CallSave(i)
    \/ SessionSave
    \/ SessionFindById
    \/ SessionFindAll
    \/ SessionUpdate
    \/ SessionDelete
    \/ CallUpload
    \/ CallDownload
    \/ CallRemove
    \/ DecoderStart
    \/ DecoderPart
    \/ \E i \in 1..3 : DecoderFileEnd(i)
    \/ DecoderFinish
    \/ DecoderError

DirectSpec == DirectInit /\ [][DirectNext]_vars

\* ------------------------------------------------------------- properties

Has(seq, x) == \E i \in 1..Len(seq) : seq[i] = x

\* Every y in seq has an x somewhere before it.
Precedes(seq, x, y) ==
    \A i \in 1..Len(seq) : seq[i] = y => \E j \in 1..(i - 1) : seq[j] = x

\* The record's key holds an object of the record's size.
Resolves(m) == m.s3Key \in DOMAIN s3 /\ Len(s3[m.s3Key].data) = m.size

Done(r) == req[r].pc = "done"

Failed(r) == Done(r) /\ req[r].err # NoError

\* The request named an id whose record the handler found.
FoundRecord(r) == req[r].existing # <<>>

\* C1: in every reachable state every metadata record's storageKey resolves to
\* an existing object whose byte length equals the record's size.
C1_EveryRecordResolves == \A id \in DOMAIN meta : Resolves(toMetadata(meta[id]))

\* C2: in every replace the new object is put before the old one is removed,
\* the record is updated only after the put succeeded, and the old object is
\* removed only after the update.
C2_ReplaceOrder ==
    \A r \in Requests :
        req[r].op = "replace" =>
            /\ Precedes(req[r].calls, "put_ok", "rm_ok")
            /\ Precedes(req[r].calls, "put_ok", "rm_fail")
            /\ Precedes(req[r].calls, "put_ok", "update")
            /\ Precedes(req[r].calls, "update", "rm_ok")
            /\ Precedes(req[r].calls, "update", "rm_fail")

\* C3: when a replace of an existing id has failed at a storage step, the
\* record of that id is the one the replace found and the object it points to
\* is still there with its previous length.
C3_FailedReplaceKeepsOld ==
    \A r \in Requests :
        (req[r].op = "replace" /\ Failed(r) /\ req[r].calls # <<>>) =>
            /\ findById(meta, req[r].id) = req[r].existing
            /\ Resolves(req[r].existing[1])

\* C4: a replace whose removal of the old object failed is answered 200 and the
\* record has the new object's key, name, type and size.
C4_RemoveFailureStillSucceeds ==
    \A r \in Requests :
        (req[r].op = "replace" /\ Done(r) /\ Has(req[r].calls, "rm_fail")) =>
            /\ req[r].status = 200
            /\ Has(req[r].calls, "update")

\* C5: delete removes the row only after its own removal of the object has
\* succeeded; when the removal fails with anything other than not-found the
\* row is left as it is and the request fails.
C5_DeleteOrder ==
    /\ [](\A r \in Requests :
            req[r].op = "delete" =>
                /\ \A i \in 1..Len(req[r].calls) :
                      req[r].calls[i] = "delete" =>
                          i > 1 /\ req[r].calls[i - 1] = "rm_ok"
                /\ (Done(r) /\ req[r].s3res \notin {"ok", "NoSuchKey", "none"}) =>
                      /\ req[r].status >= 400
                      /\ ~Has(req[r].calls, "delete"))
    /\ [][\A r \in Requests :
            (req[r].op = "delete" /\ req[r].pc = "rm_ret") =>
                /\ (req[r].s3res \notin {"ok", "NoSuchKey"} /\ req'[r].pc = "done")
                      => meta' = meta
                /\ (req[r].s3res = "ok" /\ req'[r].pc = "done")
                      => /\ req'[r].calls = Append(req[r].calls, "delete")
                         /\ meta' = delete(meta, req[r].id)]_vars
    /\ [][\A id \in DOMAIN meta :
            id \notin DOMAIN meta' =>
                \E r \in Requests :
                    /\ req[r].op = "delete" /\ req[r].id = id
                    /\ req[r].pc = "rm_ret" /\ req[r].s3res = "ok"
                    /\ req'[r].pc = "done"]_vars

\* A delete failed on AccessDenied and left its row as it found it; a second
\* delete of the same id has had its object removed and is about to remove the
\* row.
C5_Witness ==
    \E r1, r2 \in Requests :
        /\ req[r1].op = "delete" /\ Done(r1) /\ req[r1].s3res = "AccessDenied"
        /\ req[r1].calls = <<"rm_fail">> /\ req[r1].status = 500
        /\ findById(meta, req[r1].id) = req[r1].existing
        /\ req[r2].op = "delete" /\ req[r2].id = req[r1].id
        /\ req[r2].pc = "rm_ret" /\ req[r2].s3res = "ok"

\* C6: a delete whose object the store reports as not found is answered 200
\* and has removed the row.
C6_DeleteNotFoundSucceeds ==
    \A r \in Requests :
        (req[r].op = "delete" /\ Done(r) /\ req[r].s3res = "NoSuchKey") =>
            /\ req[r].status = 200
            /\ Has(req[r].calls, "delete")

\* C7: a read whose record exists and whose object the store reports missing
\* fails with InternalError (500); a read answers 404 only when the id has no
\* record.
C7_MissingObjectIsInternal ==
    \A r \in Requests :
        (req[r].op = "get" /\ Done(r)) =>
            /\ (FoundRecord(r) /\ req[r].s3res = "NoSuchKey") =>
                  req[r].err = InternalError /\ req[r].status = 500
            /\ req[r].status = 404 => ~FoundRecord(r)

\* C8: a row is inserted by upload, and changed by replace, only right after
\* that request's put succeeded; a request whose put failed leaves the table
\* as it is.
C8_MetadataAfterPut ==
    /\ [](\A r \in Requests :
            /\ \A i \in 1..Len(req[r].calls) :
                  req[r].calls[i] \in {"insert", "update"} =>
                      i > 1 /\ req[r].calls[i - 1] = "put_ok"
            /\ Has(req[r].calls, "put_fail") =>
                  /\ ~Has(req[r].calls, "insert")
                  /\ ~Has(req[r].calls, "update"))
    /\ [][\A r \in Requests :
            /\ (req[r].pc = "put_ret" /\ req[r].s3res # "ok" /\ req'[r].pc = "done")
                  => meta' = meta /\ req'[r].status >= 400
            /\ (req[r].pc = "put_wait" /\ req'[r].pc = "put_ret") => meta' = meta]_vars
    /\ [][meta' # meta =>
            \E r \in Requests :
                \/ /\ req[r].op = "upload" /\ req[r].pc = "put_ret"
                   /\ req[r].s3res = "ok"
                   /\ req'[r].calls = Append(req[r].calls, "insert")
                   /\ req[r].id \notin DOMAIN meta /\ req[r].id \in DOMAIN meta'
                \/ /\ req[r].op = "replace" /\ req[r].pc = "put_ret"
                   /\ req[r].s3res = "ok"
                   /\ req'[r].calls = Append(req[r].calls, "update")
                \/ /\ req[r].op = "delete"
                   /\ req'[r].calls = Append(req[r].calls, "delete")]_vars

\* An upload whose put failed left the table empty, and a replace whose put
\* failed left the row as it found it.
C8_Witness ==
    /\ \E r \in Requests :
          /\ req[r].op = "upload" /\ Done(r) /\ req[r].calls = <<"put_fail">>
          /\ req[r].id \notin DOMAIN meta
    /\ \E r \in Requests :
          /\ req[r].op = "replace" /\ Done(r)
          /\ req[r].calls = <<"rm_ok", "put_fail">>
          /\ findById(meta, req[r].id) = req[r].existing

\* The bodies whose one file FileValidator.validate rejects, and the bodies
\* that the decoder and the validator both accept.
RejectedBodies ==
    {b \in Bodies :
        /\ Len(b) = 1
        /\ validate(b[1].data, resolveMimeType(b[1]), b[1].filename) # NoError}

AcceptedBodies ==
    {b \in Bodies :
        /\ Len(b) = 1
        /\ Len(b[1].data) <= MaxFileSizeBytes
        /\ validate(b[1].data, resolveMimeType(b[1]), b[1].filename) = NoError}

InvalidContent(r) ==
    req[r].op \in {"upload", "replace"} /\ req[r].parts \in RejectedBodies

\* C9: an upload or replace whose content fails validation makes no
\* object-store call and leaves the table as it is; a handler that has issued
\* a storage call holds content that passed validation.
C9_ValidationBeforeStorage ==
    /\ [](\A r \in Requests :
            /\ InvalidContent(r) =>
                  /\ req[r].calls = <<>>
                  /\ req[r].pc \in {"parse", "done"}
                  /\ Done(r) => req[r].status \in {400, 413, 415}
            /\ (req[r].op \in {"upload", "replace"}
                  /\ (req[r].calls # <<>>
                        \/ req[r].pc \in {"rm_wait", "rm_ret", "put_wait", "put_ret"})) =>
                  /\ req[r].parts \in AcceptedBodies
                  /\ req[r].file = req[r].parts[1])
    /\ [][\A r \in Requests :
            (InvalidContent(r) /\ req[r].pc = "parse" /\ req'[r].pc # "parse") =>
                meta' = meta /\ s3' = s3]_vars

\* An upload rejected for a signature mismatch and a replace of an existing id
\* rejected for an empty file, neither having called the object store.
C9_Witness ==
    /\ \E r \in Requests :
          /\ req[r].op = "upload" /\ Done(r) /\ req[r].parts = <<FileMismatch>>
          /\ req[r].err = UnsupportedMediaTypeError(<<>>)
    /\ \E r \in Requests :
          /\ req[r].op = "replace" /\ Done(r) /\ req[r].parts = <<FileEmpty>>
          /\ FoundRecord(r) /\ req[r].err = BadRequestError
          /\ Resolves(toMetadata(meta[req[r].id]))

\* C10: delete, replace and read of a well-formed id that has no record fail
\* with NotFoundError (404) at once, call no store and change nothing.
C10_UnknownIdIsNotFound ==
    [][\A r \in Requests :
          (/\ req[r].pc = "idle"
           /\ req'[r].op \in {"get", "replace", "delete"}
           /\ uuidValidate(req'[r].id)
           /\ req'[r].id \notin DOMAIN meta) =>
              /\ req'[r].pc = "done"
              /\ req'[r].err = NotFoundError
              /\ req'[r].status = 404
              /\ req'[r].calls = <<>>
              /\ meta' = meta
              /\ s3' = s3]_vars

\* A delete removed the row of an id and a second delete of that id got 404;
\* the object store and the table are empty again.
C10_Witness ==
    \E r1, r2 \in Requests :
        /\ r1 < r2
        /\ req[r1].op = "delete" /\ Done(r1) /\ req[r1].status = 200
        /\ req[r2].op = "delete" /\ Done(r2) /\ req[r2].status = 404
        /\ req[r2].id = req[r1].id
        /\ req[r2].calls = <<>>
        /\ req[r2].id \notin DOMAIN meta

\* No other request has replaced or deleted the id that request r names.
Undisturbed(r) ==
    \A q \in Requests \ {r} :
        req[q].id = req[r].id => req[q].op \in {"upload", "get"}

\* C11: after a successful replace, whatever the old and the new filename, the
\* record of the id points to an object holding the new bytes and the key the
\* replace found holds no object any more.
C11_ReplaceRetiresOldKey ==
    \A r \in Requests :
        (req[r].op = "replace" /\ Done(r) /\ req[r].status = 200 /\ Undisturbed(r)) =>
            /\ req[r].id \in DOMAIN meta
            /\ toMetadata(meta[req[r].id]).s3Key \in DOMAIN s3
            /\ s3[toMetadata(meta[req[r].id]).s3Key].data = req[r].file.data
            /\ req[r].existing[1].s3Key \notin DOMAIN s3

\* C12: a successful upload of bytes B validated as type T answers with
\* size = length(B) and mimeType = T, and a later read of the returned id, no
\* replace or delete of it intervening, returns exactly B with Content-Type T
\* (or fails on a fault of the backend, never on a missing object).
C12_UploadThenGet ==
    \A u \in Requests :
        (req[u].op = "upload" /\ Done(u) /\ req[u].status = 201) =>
            /\ req[u].resp.id = ""
            /\ Undisturbed(u) => req[u].resp.file = <<toResponse(toMetadata(meta[req[u].id]))>>
            /\ req[u].resp.file[1].id = req[u].id
            /\ req[u].resp.file[1].size = Len(req[u].parts[1].data)
            /\ req[u].resp.file[1].mimeType = req[u].mimeType
            /\ validate(req[u].parts[1].data, req[u].mimeType,
                        req[u].parts[1].filename) = NoError
            /\ \A g \in Requests :
                  (/\ req[g].op = "get" /\ req[g].id = req[u].id
                   /\ FoundRecord(g) /\ Done(g) /\ Undisturbed(g)) =>
                      \/ /\ req[g].status = 200
                         /\ req[g].resp.data = req[u].parts[1].data
                         /\ req[g].resp.contentType = req[u].mimeType
                      \/ /\ req[g].s3res \in GetFaults \cup StreamFaults
                         /\ req[g].status = 500

\* doc.pdf, declared application/octet-stream, was uploaded and then read back:
\* the same four bytes with Content-Type application/pdf.
C12_Witness ==
    \E u, g \in Requests :
        /\ req[u].op = "upload" /\ Done(u) /\ req[u].status = 201
        /\ req[u].parts = <<FileDoc>>
        /\ req[u].resp.file[1].size = 4
        /\ req[u].resp.file[1].mimeType = ApplicationPdf
        /\ req[g].op = "get" /\ req[g].id = req[u].id /\ Done(g)
        /\ req[g].status = 200
        /\ req[g].resp.data = <<37, 80, 68, 70>>
        /\ req[g].resp.contentType = ApplicationPdf

\* C13: an id goes absent -> present -> absent.  A row appears only by the
\* insert of an upload, under the fresh id that upload chose; every row is
\* stored under its own id, so no two rows share one; a replace changes the
\* row of its id and neither adds nor removes a row; and the id of a row that
\* a delete has removed has no row in any later state, whatever other requests
\* were running.
C13_IdLifecycle ==
    /\ [](/\ \A i \in DOMAIN meta : meta[i].id = i
          /\ DOMAIN meta \subseteq {UuidPool[k] : k \in 1..issued}
          /\ \A r \in Requests :
                (req[r].op = "delete" /\ Has(req[r].calls, "delete")) =>
                    req[r].id \notin DOMAIN meta)
    /\ [][\A i \in Uuids :
            (i \notin DOMAIN meta /\ i \in DOMAIN meta') =>
                \E r \in Requests :
                    /\ req[r].op = "upload" /\ req[r].id = i
                    /\ req[r].pc = "put_ret"
                    /\ req'[r].calls = Append(req[r].calls, "insert")
                    /\ \A q \in Requests \ {r} : req[q].id = i => ~FoundRecord(q)]_vars
    /\ [][\A r \in Requests :
            (req[r].op = "replace" /\ req[r].pc = "put_ret" /\ req'[r].pc = "done") =>
                /\ DOMAIN meta' = DOMAIN meta
                /\ \A i \in DOMAIN meta : i # req[r].id => meta'[i] = meta[i]
                /\ req'[r].status = 200 =>
                      /\ req[r].id \in DOMAIN meta
                      /\ meta'[req[r].id].id = req[r].id
                      /\ toMetadata(meta'[req[r].id]).s3Key = req[r].key
                      /\ req'[r].resp.file[1].id = req[r].id]_vars

\* A delete removed the row of an id while a replace of the same id was
\* running; the replace then put its object and found no row to update.
C13_Witness ==
    \E d, p \in Requests :
        /\ req[d].op = "delete" /\ Done(d) /\ Has(req[d].calls, "delete")
        /\ req[p].op = "replace" /\ req[p].id = req[d].id /\ Done(p)
        /\ Has(req[p].calls, "put_ok") /\ ~Has(req[p].calls, "update")
        /\ req[p].err = PlainError /\ req[p].status = 500
        /\ req[d].id \notin DOMAIN meta

\* C14: when two replace requests of the same existing id ran concurrently
\* and both were answered 200, the id has one row, and the object under the
\* row's key has the byte length of the row's size and the content type of
\* the row's mimeType.
C14_ConcurrentReplaceConsistent ==
    \A p, q \in Requests :
        (/\ p # q
         /\ req[p].op = "replace" /\ req[q].op = "replace"
         /\ req[p].id = req[q].id
         /\ Done(p) /\ req[p].status = 200
         /\ Done(q) /\ req[q].status = 200) =>
            /\ req[p].id \in DOMAIN meta
            /\ toMetadata(meta[req[p].id]).s3Key \in DOMAIN s3
            /\ Len(s3[toMetadata(meta[req[p].id]).s3Key].data) = toMetadata(meta[req[p].id]).size
            /\ s3[toMetadata(meta[req[p].id]).s3Key].contentType = toMetadata(meta[req[p].id]).mimeType

\* C15: of two save calls with the same id issued together, exactly one
\* succeeds and the other fails, and the stored row is the record of the call
\* that succeeded; the calls make no lookup of their own first.
C15_ConcurrentSave ==
    (call.fn = "save" /\ call.rows[1].id = call.rows[2].id) =>
        /\ \A i \in 1..2 :
              /\ call.outcomes[i] = "ok" =>
                    /\ DOMAIN meta = {call.rows[i].id}
                    /\ toMetadata(meta[call.rows[i].id]) = call.rows[i]
              /\ call.outcomes[i] = "throws" => call.outcomes[3 - i] = "ok"
        /\ call.pc = "returned" =>
              \E i \in 1..2 :
                  call.outcomes[i] = "ok" /\ call.outcomes[3 - i] = "throws"

\* Two different records of id u1 were saved together: the second one listed
\* ran first and is the stored row, the other call failed.
C15_Witness ==
    /\ call.fn = "save" /\ call.pc = "returned"
    /\ call.rows[1].id = call.rows[2].id
    /\ call.rows[1] # call.rows[2]
    /\ call.outcomes = <<"throws", "ok">>
    /\ toMetadata(meta[call.rows[2].id]) = call.rows[2]

\* The call of validate has returned.
Validated == call.fn = "validate" /\ call.pc = "returned"

\* The signatures the specification registers for a type: FF D8 FF;
\* 89 50 4E 47; "GIF87a" or "GIF89a"; "%PDF".
RegisteredSignatures(t) ==
    IF t = <<"i","m","a","g","e","/","j","p","e","g">> THEN {<<255, 216, 255>>}
    ELSE IF t = <<"i","m","a","g","e","/","p","n","g">> THEN {<<137, 80, 78, 71>>}
    ELSE IF t = <<"i","m","a","g","e","/","g","i","f">>
    THEN {<<71, 73, 70, 56, 55, 97>>, <<71, 73, 70, 56, 57, 97>>}
    ELSE IF t = <<"a","p","p","l","i","c","a","t","i","o","n","/","p","d","f">>
    THEN {<<37, 80, 68, 70>>}
    ELSE {}

\* The declared type, compared case-insensitively, is on the allow-list.
AllowListed(t) == RegisteredSignatures(ToLowerCase(t)) # {}

\* The content's leading bytes are one of the type's registered signatures.
HasSignature(d, t) ==
    \E sig \in RegisteredSignatures(ToLowerCase(t)) :
        /\ Len(d) >= Len(sig)
        /\ \A i \in 1..Len(sig) : d[i] = sig[i]

\* C16: validate applies its rules in order and the first failing rule
\* decides: empty -> BadRequest (400); else longer than the limit ->
\* PayloadTooLarge (413); else a type that is not allow-listed, compared
\* case-insensitively -> UnsupportedMediaType (415); else a signature mismatch
\* -> UnsupportedMediaType (415); otherwise the file is accepted.
C16_ValidateOrder ==
    Validated =>
        LET d == call.fileData
            t == call.mimeType
            outcome == <<call.result.name, call.result.statusCode>>
        IN  outcome =
               IF Len(d) = 0 THEN <<"BadRequestError", 400>>
               ELSE IF Len(d) > call.limit THEN <<"PayloadTooLargeError", 413>>
               ELSE IF ~AllowListed(t) THEN <<"UnsupportedMediaTypeError", 415>>
               ELSE IF ~HasSignature(d, t) THEN <<"UnsupportedMediaTypeError", 415>>
               ELSE <<"none", 0>>

\* A file longer than the limit and declared text/plain was rejected as
\* oversized.
C16_Witness ==
    /\ Validated
    /\ call.mimeType = TextPlain
    /\ Len(call.fileData) > call.limit
    /\ call.result = PayloadTooLargeError

\* C17: for every limit L, content that is valid in every other respect is
\* accepted at length exactly L (and below) and rejected as PayloadTooLarge at
\* length L + 1 (and above).
C17_SizeBoundary ==
    (Validated /\ AllowListed(call.mimeType)
       /\ HasSignature(call.fileData, call.mimeType)) =>
        /\ Len(call.fileData) <= call.limit => call.result = NoError
        /\ Len(call.fileData) = call.limit => call.result = NoError
        /\ Len(call.fileData) = call.limit + 1 => call.result = PayloadTooLargeError
        /\ Len(call.fileData) > call.limit => call.result = PayloadTooLargeError

\* A GIF of exactly the largest limit's length was accepted.
C17_Witness ==
    /\ Validated
    /\ call.limit = MaxFileSizeBytes
    /\ Len(call.fileData) = call.limit
    /\ call.mimeType = ImageGif
    /\ call.result = NoError

\* C18: for an allow-listed type and non-empty content within the limit,
\* validate accepts exactly when the leading bytes are one of the type's
\* registered signatures and rejects as UnsupportedMediaType otherwise: so
\* content whose first byte is no signature's first byte, and content shorter
\* than every signature of the type, are rejected.
C18_SignatureDecides ==
    (/\ Validated /\ AllowListed(call.mimeType)
     /\ Len(call.fileData) > 0 /\ Len(call.fileData) <= call.limit) =>
        LET d == call.fileData
            sigs == RegisteredSignatures(ToLowerCase(call.mimeType))
            rejected == /\ call.result.name = "UnsupportedMediaTypeError"
                        /\ call.result.statusCode = 415
        IN  /\ call.result = NoError <=> HasSignature(d, call.mimeType)
            /\ call.result # NoError => rejected
            /\ (\A sig \in sigs : d[1] # sig[1]) => rejected
            /\ (\A sig \in sigs : Len(d) < Len(sig)) => rejected

\* A PNG signature with its first byte changed, declared image/png, was
\* rejected as an unsupported type.
C18_Witness ==
    /\ Validated
    /\ call.mimeType = ImagePng
    /\ call.fileData = <<0, 80, 78, 71>>
    /\ call.limit >= 4
    /\ call.result.name = "UnsupportedMediaTypeError"

EndsWith(s, suffix) ==
    /\ Len(s) >= Len(suffix)
    /\ SubSeq(s, Len(s) - Len(suffix) + 1, Len(s)) = suffix

\* C19: getMimeTypeFromExtension answers image/jpeg for a name ending in .jpg
\* or .jpeg, image/png for .png, image/gif for .gif, application/pdf for .pdf,
\* in any letter case, and null for every other name, a name without '.'
\* included.
C19_ExtensionTable ==
    (call.fn = "getMimeTypeFromExtension" /\ call.pc = "returned") =>
        LET f == ToLowerCase(call.filename)
        IN  /\ call.detected =
                  IF EndsWith(f, <<".","j","p","g">>)
                        \/ EndsWith(f, <<".","j","p","e","g">>)
                  THEN <<ImageJpeg>>
                  ELSE IF EndsWith(f, <<".","p","n","g">>) THEN <<ImagePng>>
                  ELSE IF EndsWith(f, <<".","g","i","f">>) THEN <<ImageGif>>
                  ELSE IF EndsWith(f, <<".","p","d","f">>) THEN <<ApplicationPdf>>
                  ELSE <<>>
            /\ (\A i \in 1..Len(f) : f[i] # ".") => call.detected = <<>>

\* a.tar.pdf was mapped by its last segment to application/pdf.
C19_Witness ==
    /\ call.fn = "getMimeTypeFromExtension" /\ call.pc = "returned"
    /\ call.filename = <<"a",".","t","a","r",".","p","d","f">>
    /\ call.detected = <<ApplicationPdf>>

\* The type the specification's extension table gives a filename, <<>> if none.
TableType(filename) ==
    LET f == ToLowerCase(filename)
    IN  IF EndsWith(f, <<".","j","p","g">>) \/ EndsWith(f, <<".","j","p","e","g">>)
        THEN <<ImageJpeg>>
        ELSE IF EndsWith(f, <<".","p","n","g">>) THEN <<ImagePng>>
        ELSE IF EndsWith(f, <<".","g","i","f">>) THEN <<ImageGif>>
        ELSE IF EndsWith(f, <<".","p","d","f">>) THEN <<ApplicationPdf>>
        ELSE <<>>

\* The type an upload or replace of file f has to validate and store.
TypeToValidate(f) ==
    IF f.mimeType = OctetStream /\ TableType(f.filename) # <<>>
    THEN TableType(f.filename)[1]
    ELSE f.mimeType

\* The bodies of one file part that the decoder hands to the handler, the type
\* each has to be validated as, and the validator's verdict on it as that type.
DecodedBodies ==
    {b \in Bodies : Len(b) = 1 /\ Len(b[1].data) <= MaxFileSizeBytes}

TypeOfBody == [b \in DecodedBodies |-> TypeToValidate(b[1])]

VerdictOfBody ==
    [b \in DecodedBodies |-> validate(b[1].data, TypeToValidate(b[1]), b[1].filename)]

\* The handler of r has decoded one file part and gone on to validate it.
ValidatedPart(r) ==
    /\ req[r].op \in {"upload", "replace"}
    /\ req[r].pc \notin {"idle", "parse"}
    /\ req[r].parts \in DecodedBodies

\* C20: upload and replace validate the declared type, except that a declared
\* application/octet-stream is first replaced by the type of the filename's
\* extension when the table has one; the type validated is the type put and
\* stored.  So doc.pdf declared application/octet-stream with a %PDF signature
\* is accepted and stored as application/pdf, and a file of any other declared
\* type is validated as declared whatever its extension.
C20_ExtensionFallback ==
    /\ [](\A r \in Requests :
            ValidatedPart(r) =>
                LET f == req[r].parts[1]
                    T == TypeOfBody[req[r].parts]
                    verdict == VerdictOfBody[req[r].parts]
                IN  /\ verdict # NoError =>
                          Done(r) /\ req[r].err = verdict /\ req[r].calls = <<>>
                    /\ verdict = NoError =>
                          /\ req[r].mimeType = T
                          /\ (Has(req[r].calls, "insert") \/ Has(req[r].calls, "update"))
                                => req[r].resp.file[1].mimeType = T
                    /\ f = FileDoc => T = ApplicationPdf /\ verdict = NoError
                    /\ f.mimeType # OctetStream => T = f.mimeType)
    /\ [][\A r \in Requests :
            /\ (req[r].pc = "put_wait" /\ req'[r].s3res = "ok") =>
                  s3'[req[r].key].contentType = TypeOfBody[req[r].parts]
            /\ (req[r].pc = "put_ret" /\ req'[r].status \in {200, 201}) =>
                  toMetadata(meta'[req[r].id]).mimeType = TypeOfBody[req[r].parts]]_vars

\* doc.pdf declared application/octet-stream was uploaded and is stored as
\* application/pdf; m.jpg, JPEG bytes declared image/png, was validated as
\* image/png and rejected.
C20_Witness ==
    \E u, v \in Requests :
        /\ req[u].op = "upload" /\ Done(u) /\ req[u].status = 201
        /\ req[u].parts = <<FileDoc>>
        /\ req[u].id \in DOMAIN meta
        /\ toMetadata(meta[req[u].id]).mimeType = ApplicationPdf
        /\ s3[toMetadata(meta[req[u].id]).s3Key].contentType = ApplicationPdf
        /\ req[v].op \in {"upload", "replace"} /\ Done(v)
        /\ req[v].parts = <<FileMismatch>>
        /\ req[v].err = UnsupportedMediaTypeError(<<>>)

\* ---- C21..C25: the metadata store, called directly

InSession(op) == call.fn = "store" /\ call.op = op

\* C21: a record saved under an id the table does not hold is what findById of
\* that id returns next, equal in every field; findById of an id that was
\* never saved, or was deleted since, returns undefined.
C21_SaveThenFindById ==
    /\ [](InSession("findById") =>
            /\ call.id \notin call.present => call.found = <<>>
            /\ call.id \in call.present =>
                  /\ call.found # <<>>
                  /\ call.found[1].id = call.id)
    /\ [][(/\ InSession("save")
           /\ ~call.threw
           /\ call'.op = "findById"
           /\ call'.id = call.row[1].id) =>
                /\ call'.found = call.row
                /\ \A f \in DOMAIN call.row[1] : call'.found[1][f] = call.row[1][f]
                /\ DOMAIN call'.found[1] = DOMAIN call.row[1]]_vars

\* doc.pdf saved as u2 beside another row and read back by the next call.
C21_Witness ==
    /\ InSession("findById")
    /\ call.found # <<>>
    /\ call.found[1] \in StoreRows
    /\ call.found[1].originalName = FileDoc.filename
    /\ call.id = UuidPool[2]
    /\ Cardinality(DOMAIN meta) = 2
    /\ call.steps = 3

\* C22: save of a record whose id the table holds throws, and the table is
\* then row for row what it was, whatever the other fields of the new record.
C22_DuplicateSaveFails ==
    InSession("save") =>
        /\ call.threw <=> call.row[1].id \in DOMAIN call.before
        /\ call.threw =>
              /\ meta = call.before
              /\ \A i \in DOMAIN call.before : meta[i] = call.before[i]
              /\ findById(meta, call.row[1].id) =
                     findById(call.before, call.row[1].id)

\* A save of doc.pdf as u1 refused while u1 holds a.jpg and u2 is stored too.
C22_Witness ==
    /\ InSession("save")
    /\ call.threw
    /\ call.row[1].originalName = FileDoc.filename
    /\ toMetadata(call.before[call.row[1].id]).originalName = FileA.filename
    /\ Cardinality(DOMAIN call.before) = 2

\* C23: findAll returns every stored record once, later uploadedAt first, and
\* two findAll calls on tables holding the same records return the same
\* sequence, whatever calls were made between them.
C23_FindAllDeterministic ==
    InSession("findAll") =>
        /\ Len(call.listed) = Cardinality(DOMAIN meta)
        /\ {call.listed[k] : k \in 1..Len(call.listed)} =
               {toMetadata(meta[i]) : i \in DOMAIN meta}
        /\ \A a, b \in 1..Len(call.listed) :
              a < b => call.listed[a].uploadedAt >= call.listed[b].uploadedAt
        /\ (call.earlier # <<>> /\ call.earlier[1].table = meta) =>
              call.listed = call.earlier[1].listed

C25_DeleteFrame ==
    InSession("delete") =>
        /\ call.changed <=> call.id \in DOMAIN call.before
        /\ call.id \notin DOMAIN call.before => meta = call.before
        /\ DOMAIN meta = DOMAIN call.before \ {call.id}
        /\ \A j \in DOMAIN meta : meta[j] = call.before[j]
        /\ findById(meta, call.id) = <<>>

\* u1 deleted out of a table of two rows, u2 left.
C25_Witness ==
    /\ InSession("delete")
    /\ call.changed
    /\ Cardinality(DOMAIN call.before) = 2
    /\ DOMAIN meta = {UuidPool[2]}

\* ---- C26, C27: the S3Service, called directly

AdapterFailed == call.fn = "s3" /\ call.pc = "returned" /\ call.failure # NoFailure

\* C26: whichever of upload, download and remove was called, a backend error
\* named NoSuchKey or NotFound is rejected as NotFoundError; one named for a
\* missing bucket, a denied request or invalid credentials as InternalError,
\* status 500; one named for a timeout as InternalError whose message ends
\* with the advice to try again; any other as InternalError whose message
\* holds the backend's message.
C26_ErrorMapping ==
    AdapterFailed =>
        LET n == call.failure.name
        IN  /\ call.operation \in {"upload", "download", "delete"}
            /\ n \in {"NoSuchKey", "NotFound"} => call.thrown = NotFoundError
            /\ n \in {"NoSuchBucket", "AccessDenied", "Forbidden",
                      "InvalidAccessKeyId", "SignatureDoesNotMatch"} =>
                  /\ call.thrown = InternalError
                  /\ call.thrown.statusCode = 500
            /\ n \in {"RequestTimeout", "TimeoutError"} =>
                  /\ call.thrown = InternalError
                  /\ call.message[Len(call.message)] = " - try again"
                  /\ Has(call.message, call.operation)
            /\ n \in {"SlowDown", ""} =>
                  /\ call.thrown = InternalError
                  /\ call.failure.message # "" =>
                        Has(call.message, call.failure.message)
            /\ handleRouteError(call.thrown) = call.thrown.statusCode

\* A download whose client.send timed out.
C26_Witness ==
    /\ AdapterFailed
    /\ call.operation = "download"
    /\ call.failure.name = "TimeoutError"
    /\ call.thrown = InternalError
    /\ Has(call.message, " - try again")

\* C27: whatever upload, download or remove rejects with is a NotFoundError
\* or an InternalError, also when the body of a download fails to read after
\* client.send resolved.
C27_ClosedTaxonomy ==
    (call.fn = "s3" /\ call.pc = "returned" /\ call.thrown # NoError) =>
        call.thrown \in {NotFoundError, InternalError}

\* ---- C28..C30: the multipart decoder

Decoding == call.fn = "decode"

\* A part that busboy reads as a file is longer than the limit.
Oversized(parts) ==
    \E i \in 1..Len(parts) : i <= maxFiles /\ Len(parts[i].data) > MaxFileSizeBytes

\* C28: a file part longer than the limit is marked truncated when busboy
\* emits "limit" and rejects the promise with PayloadTooLargeError when its
\* stream ends; in whatever order the events of a decode come, the promise
\* never resolves for a body with such a part, and the files it resolves with
\* are the parts of the body, whole.  Where the body also has too many parts
\* or is cut short, the promise rejects with the error of the event that came
\* first.  For a well-framed body the outcome is one parseMultipartBody gives.
C28_OversizedPartRejects ==
    Decoding =>
        /\ call.truncated =
               {i \in call.opened : Len(call.parts[i].data) > MaxFileSizeBytes}
        /\ call.settled = "resolved" =>
              /\ ~Oversized(call.parts)
              /\ call.resolved = call.parts
              /\ \A k \in 1..Len(call.resolved) :
                    Len(call.resolved[k].data) <= MaxFileSizeBytes
        /\ \A k \in 1..Len(call.files) :
              \E i \in 1..Len(call.parts) : call.files[k] = call.parts[i]
        /\ call.truncated \cap call.ended # {} =>
              /\ call.settled = "rejected"
              /\ \/ call.thrown = PayloadTooLargeError
                 \/ call.thrown = BadRequestError /\ Len(call.parts) > maxFiles
                 \/ call.thrown = PlainError /\ call.framing # "ok"
        /\ (/\ Oversized(call.parts)
            /\ Len(call.parts) <= maxFiles
            /\ call.framing = "ok"
            /\ call.closed) =>
              /\ call.settled = "rejected"
              /\ call.thrown = PayloadTooLargeError
        /\ (call.framing = "ok" /\ call.closed) =>
              [err |-> call.thrown, files |-> call.resolved]
                  \in parseMultipartBody(call.parts)

\* big.gif alone in a well-framed body: truncated, read to its end, and the
\* promise rejected as too large.
C28_Witness ==
    /\ Decoding
    /\ call.parts = <<FileBig>>
    /\ call.framing = "ok"
    /\ call.closed
    /\ call.truncated = {1}
    /\ call.ended = {1}
    /\ call.thrown = PayloadTooLargeError

\* C29: a request whose body has more file parts than maxFiles is answered
\* 400 with a BadRequestError, whether an upload or a replace, and calls
\* neither the object store nor the metadata store.
C29_TooManyFilesRejects ==
    \A r \in Requests :
        (req[r].op \in {"upload", "replace"} /\ Len(req[r].parts) > maxFiles) =>
            /\ req[r].calls = <<>>
            /\ req[r].pc \in {"parse", "done"}
            /\ Done(r) =>
                  \/ ~FoundRecord(r) /\ req[r].op = "replace"
                  \/ /\ req[r].err = BadRequestError
                     /\ req[r].status = 400
                     /\ req[r].resp = NoResponse

\* An upload and a replace of a stored id, both with a body of two parts, both
\* answered 400.
C29_Witness ==
    \E r, q \in Requests :
        /\ req[r].op = "upload" /\ req[q].op = "replace"
        /\ Len(req[r].parts) = 2 /\ Len(req[q].parts) = 2
        /\ FoundRecord(q)
        /\ req[r].status = 400 /\ req[q].status = 400

\* C30: a body whose framing is malformed, and that exceeds no limit, makes
\* the promise reject with a BadRequestError, which the router answers 400.
C30_MalformedIsBadRequest ==
    (/\ Decoding
     /\ call.framing # "ok"
     /\ ~Oversized(call.parts)
     /\ Len(call.parts) <= maxFiles
     /\ call.closed) =>
        /\ call.settled = "rejected"
        /\ call.thrown = BadRequestError
        /\ handleRouteError(call.thrown) = 400

\* ---- C31: the detail of a 415 rejection

\* C31: every UnsupportedMediaTypeError that validate throws, for a type
\* outside the allow-list and for content that does not match the type's
\* signature alike, carries the list of allowed types.
C31_RejectionCarriesAllowedTypes ==
    (Validated /\ call.result.name = "UnsupportedMediaTypeError") =>
        /\ call.result.statusCode = 415
        /\ call.result.allowedTypes = getAllowedTypes

\* ---- C32: the id's syntax

\* C32: a GET, PUT or DELETE that names an id which is no valid uuid is
\* answered 400 with a BadRequestError at once, having read no record and
\* made no call on either store.  A PUT checks in this order: an invalid id
\* gives 400; a valid id with no record gives 404; only a PUT that found its
\* record is answered 400 for its content type or body.
C32_InvalidIdIsBadRequest ==
    \A r \in Requests :
        req[r].op \in {"get", "replace", "delete"} =>
            /\ ~uuidValidate(req[r].id) =>
                  /\ Done(r)
                  /\ req[r].err = BadRequestError
                  /\ req[r].status = 400
                  /\ ~FoundRecord(r)
                  /\ req[r].calls = <<>>
                  /\ req[r].key = <<>>
            /\ (uuidValidate(req[r].id) /\ ~FoundRecord(r)) =>
                  /\ Done(r)
                  /\ req[r].err = NotFoundError
                  /\ req[r].status = 404
                  /\ req[r].calls = <<>>
            /\ (req[r].op = "replace" /\ req[r].status = 400) =>
                  \/ ~uuidValidate(req[r].id)
                  \/ FoundRecord(r) /\ req[r].calls = <<>>

\* With u1 stored, a PUT naming a malformed id was answered 400 and a PUT
\* naming a well-formed unknown id 404.
C32_Witness ==
    \E r, q \in Requests :
        /\ req[r].op = "replace" /\ req[r].id = MalformedId /\ req[r].status = 400
        /\ req[q].op = "replace" /\ req[q].id = UnknownUuid /\ req[q].status = 404
        /\ DOMAIN meta # {}

\* The timer answered request r.
TimedOut(r) == req[r].written # <<>> /\ req[r].written[1].status = 408

C36_FailedInsertLeavesObject ==
    [][\A r \in Requests :
          (/\ req[r].op = "upload" /\ req[r].pc = "put_ret" /\ req[r].s3res = "ok"
           /\ req'[r].pc = "done" /\ req'[r].err # NoError) =>
              /\ req'[r].err = PlainError
              /\ req'[r].status = 500
              /\ req'[r].calls = <<"put_ok">>
              /\ meta' = meta
              /\ req[r].id \notin DOMAIN meta'
              /\ s3' = s3
              /\ req[r].key \in DOMAIN s3'
              /\ \A i \in DOMAIN meta' : toMetadata(meta'[i]).s3Key # req[r].key]_vars

\* An upload failed after its put: its object is in the bucket, its id has no
\* row.
C36_Witness ==
    \E r \in Requests :
        /\ req[r].op = "upload" /\ Failed(r) /\ req[r].status = 500
        /\ req[r].calls = <<"put_ok">>
        /\ req[r].key \in DOMAIN s3
        /\ req[r].id \notin DOMAIN meta

\* C40: for every partial record, one that carries another id included, an
\* update that finds its row leaves that row's id as it was, changes no row but
\* the one stored under the id it was called with, and returns a record equal
\* to that row as stored afterwards.
C40_UpdateTouchesOnlyItsRow ==
    (InSession("update") /\ call.found # <<>>) =>
        /\ call.id \in DOMAIN meta
        /\ meta[call.id].id = call.id
        /\ DOMAIN meta = DOMAIN call.before
        /\ \A i \in DOMAIN meta \ {call.id} : meta[i] = call.before[i]
        /\ call.found[1] = toMetadata(meta[call.id])

\* C38: for every filename the key an upload or a replace stores under is
\* "uploads/" followed by the file id and the extension, the part of the
\* filename from its last '.' on; a filename without '.' has the empty
\* extension and the key "uploads/" followed by the id alone.
C38_KeyIsIdPlusExtension ==
    (call.fn = "s3Key" /\ call.pc = "returned") =>
        LET name == call.filename
            dots == {i \in 1..Len(name) : name[i] = "."}
            ext == IF dots = {} THEN <<>>
                   ELSE SubSeq(name, CHOOSE i \in dots : \A j \in dots : j <= i,
                               Len(name))
        IN  call.key = <<"uploads/", call.fileId>> \o ext

\* C39: whatever uploads and replaces have run, every record's mimeType is on
\* the allow-list when lower-cased and its size is above 0 and at most the
\* limit; and the request that writes a record writes the byte length and the
\* type of the content it validated, content that is non-empty, within the
\* limit, of an allowed type and carrying that type's signature.
C39_RecordsHoldValidatedContent ==
    /\ [](\A i \in DOMAIN meta :
            LET m == toMetadata(meta[i])
            IN  /\ ToLowerCase(m.mimeType) \in ALLOWED_MIME_TYPES
                /\ m.size > 0
                /\ m.size <= MaxFileSizeBytes)
    /\ [][\A r \in Requests :
            (/\ Len(req'[r].calls) = Len(req[r].calls) + 1
             /\ req'[r].calls[Len(req'[r].calls)] \in {"insert", "update"}) =>
                LET m == toMetadata(meta'[req[r].id])
                    d == req[r].file.data
                IN  /\ m.size = Len(d)
                    /\ m.mimeType = req[r].mimeType
                    /\ m.originalName = req[r].file.filename
                    /\ Len(d) > 0 /\ Len(d) <= MaxFileSizeBytes
                    /\ ToLowerCase(req[r].mimeType) \in ALLOWED_MIME_TYPES
                    /\ HasSignature(d, req[r].mimeType)
                    /\ \A i \in DOMAIN meta' \ {req[r].id} :
                          i \in DOMAIN meta /\ meta'[i] = meta[i]]_vars

\* A record first written by an upload and last written by a replace holds
\* the size and type of the replacing content.
C39_Witness ==
    \E u, p \in Requests :
        /\ req[u].op = "upload" /\ Done(u) /\ req[u].status = 201
        /\ req[p].op = "replace" /\ Done(p) /\ req[p].status = 200
        /\ req[p].id = req[u].id
        /\ Len(req[p].file.data) # Len(req[u].file.data)
        /\ req[u].id \in DOMAIN meta
        /\ toMetadata(meta[req[u].id]).size = Len(req[p].file.data)

\* Every upload, replace and delete answered so far succeeded.
AllSucceeded ==
    \A r \in Requests :
        (Done(r) /\ req[r].op \in {"upload", "replace", "delete"}) =>
            req[r].status \in {200, 201}

\* C37: when requests run one after the other and every upload, replace and
\* delete so far succeeded, then between requests the bucket holds exactly one
\* object per record, under the record's current key and of its size, and no
\* object that no record names.
C37_SequentialRunsLeaveNoOrphan ==
    (Quiet /\ AllSucceeded) =>
        /\ \A i \in DOMAIN meta : Resolves(toMetadata(meta[i]))
        /\ \A i, j \in DOMAIN meta :
              toMetadata(meta[i]).s3Key = toMetadata(meta[j]).s3Key => i = j
        /\ DOMAIN s3 = {toMetadata(meta[i]).s3Key : i \in DOMAIN meta}

\* A replace that changed the extension came after an upload: the bucket holds
\* the uploaded object and the replaced one under its new key, nothing else.
C37_Witness ==
    /\ Quiet /\ AllSucceeded
    /\ \E u, p \in Requests :
          /\ req[u].op = "upload" /\ Done(u)
          /\ req[p].op = "replace" /\ Done(p) /\ req[p].id # req[u].id
          /\ req[p].key # req[p].existing[1].s3Key
          /\ Cardinality(DOMAIN s3) = 2

\* None of request r's object-store calls failed.
NoStoreFault(r) ==
    \A i \in 1..Len(req[r].calls) :
        req[r].calls[i] \notin {"put_fail", "rm_fail", "get_fail"}

\* C34: when a replace and a delete that both found the record of one id have
\* finished, with no other request on that id and no object-store call of
\* either failing, either the record exists and its key holds an object of
\* its size, or the record is gone and the bucket holds no object stored for
\* that id; and each of the two ended in success or in an error of the
\* taxonomy.
C34_ReplaceAgainstDelete ==
    \A p, d \in Requests :
        (/\ req[p].op = "replace" /\ req[d].op = "delete"
         /\ req[p].id = req[d].id
         /\ FoundRecord(p) /\ FoundRecord(d)
         /\ Done(p) /\ Done(d)
         /\ NoStoreFault(p) /\ NoStoreFault(d)
         /\ \A q \in Requests \ {p, d} : req[q].id # req[p].id) =>
            /\ \/ /\ req[p].id \in DOMAIN meta
                  /\ Resolves(toMetadata(meta[req[p].id]))
               \/ /\ req[p].id \notin DOMAIN meta
                  /\ \A k \in DOMAIN s3 : k[2] # req[p].id
            /\ \A r \in {p, d} :
                  req[r].err = NoError \/ req[r].err.name \in AppErrorNames
====
